---- MODULE Spec2Model ----
(***************************************************************************)
(* A model of the multiplexed tunnel core of roj1: the Reassembler, the   *)
(* per-connection Socket with its loops and one-shot cleanup, and the     *)
(* adapter (route table, packet callbacks, accept loop).                  *)
(***************************************************************************)
EXTENDS Integers, Sequences, FiniteSets, Bags, TLC

(***************************************************************************)
(* Program constants                                                       *)
(***************************************************************************)
TypeConnect == 1
TypeData == 2
TypeClose == 3
maxBufferedBytes == 524288000
inboxCap == 1024
maxPayloadSize == 16384
HeaderSize == 9
highWaterMark == 262144
lowWaterMark == 65536
sendBufferSize == 64

(***************************************************************************)
(* Bounds of the model                                                     *)
(***************************************************************************)
\* largest SeqNum offered to Reassembler.Push in SpecR
MaxSeq == 3
\* number of Push calls in one behaviour of SpecR
MaxPush == 4
\* Sockets created per side in one behaviour
MaxSock == 2
\* local connections the client accepts in one behaviour of Spec
MaxConn == 1
\* local connections the client accepts in one behaviour of SpecReuse
ReuseConns == 2
\* chunks the client application sends on its connection in SpecLive
LiveData == 2
\* ephemeral ports the client's local connections come from
MaxPort == 1
\* host callbacks that run at the same time
MaxCb == 2
\* chunks a client application sends on one connection
MaxData == 1
\* packets the transport loses in one behaviour
MaxLost == 1
\* packets the transport duplicates in one behaviour
MaxDup == 1
\* packets a test peer injects in one behaviour, and the largest SeqNum it uses
MaxFeed == 3
\* Send* calls in one behaviour of SpecSend, enough to pass the high-water mark
MaxSend == 18
\* Send* calls in one behaviour of SpecFull, enough to fill the inbox
MaxFull == 66
\* Send* calls that wait at the same time
MaxCallers == 2
\* Send* calls in one behaviour of SpecOrder
MaxOrder == 5
\* packets dropped at a full inbox before the test peer of SpecFlood stops
MaxDrop == 2

(***************************************************************************)
(* Packets.  A payload is a record of its length and a tag that stands    *)
(* for its bytes.                                                          *)
(***************************************************************************)
NoPayload == [len |-> 0, tag |-> 0]

Packet(t, id, seq, pl) == [Type |-> t, SocketID |-> id, SeqNum |-> seq, Payload |-> pl]

PayloadLen(pl) == pl.len

(***************************************************************************)
(* packetHeap and container/heap, on a 0-based array kept as a sequence   *)
(***************************************************************************)
At(h, i) == h[i + 1]

Less(h, i, j) == At(h, i).SeqNum < At(h, j).SeqNum

Swap(h, i, j) == [h EXCEPT ![i + 1] = h[j + 1], ![j + 1] = h[i + 1]]

RECURSIVE HeapUp(_, _)
HeapUp(h, j) ==
  LET i == IF j = 0 THEN 0 ELSE (j - 1) \div 2
  IN IF i = j \/ ~Less(h, j, i) THEN h ELSE HeapUp(Swap(h, i, j), i)

RECURSIVE HeapDown(_, _, _)
HeapDown(h, i, n) ==
  LET j1 == 2 * i + 1
      j2 == j1 + 1
      j == IF j2 < n /\ Less(h, j2, j1) THEN j2 ELSE j1
  IN IF j1 >= n THEN h
     ELSE IF ~Less(h, j, i) THEN h
     ELSE HeapDown(Swap(h, i, j), j, n)

HeapPush(h, x) == HeapUp(Append(h, x), Len(h))

HeapPop(h) ==
  LET n == Len(h) - 1
      h1 == HeapDown(Swap(h, 0, n), 0, n)
  IN [item |-> h1[n + 1], heap |-> SubSeq(h1, 1, n)]

(***************************************************************************)
(* Reassembler                                                             *)
(***************************************************************************)
NewReassembler == [expectedSeq |-> 1, buffer |-> <<>>, bufferedBytes |-> 0, notify |-> 0]

\* a Push that never signals the drain loop
NotifyNever(r) == r

\* the non-blocking send on the single-slot notify channel
Notify(r) == IF r.notify = 0 THEN [r EXCEPT !.notify = 1] ELSE r

\* a Push that counts the bytes of a packet it ignores as too old
PushCountsOld(r, pkt) ==
  IF pkt.SeqNum < r.expectedSeq
    THEN [reasm |-> [r EXCEPT !.bufferedBytes = r.bufferedBytes + PayloadLen(pkt.Payload)],
          overflow |-> FALSE]
    ELSE LET r1 == [r EXCEPT !.buffer = HeapPush(r.buffer, pkt),
                             !.bufferedBytes = r.bufferedBytes + PayloadLen(pkt.Payload)]
             r2 == IF At(r1.buffer, 0).SeqNum = r1.expectedSeq THEN Notify(r1) ELSE r1
         IN [reasm |-> r2, overflow |-> r1.bufferedBytes > maxBufferedBytes]

Push(r, pkt) ==
  IF pkt.SeqNum < r.expectedSeq
    THEN [reasm |-> r, overflow |-> FALSE]
    ELSE LET r1 == [r EXCEPT !.buffer = HeapPush(r.buffer, pkt),
                             !.bufferedBytes = r.bufferedBytes + PayloadLen(pkt.Payload)]
             r2 == IF At(r1.buffer, 0).SeqNum = r1.expectedSeq THEN Notify(r1) ELSE r1
         IN [reasm |-> r2, overflow |-> r1.bufferedBytes > maxBufferedBytes]

RECURSIVE DrainLoop(_, _)
DrainLoop(r, result) ==
  IF Len(r.buffer) > 0 /\ At(r.buffer, 0).SeqNum = r.expectedSeq
    THEN LET p == HeapPop(r.buffer)
         IN DrainLoop([r EXCEPT !.buffer = p.heap,
                                !.bufferedBytes = r.bufferedBytes - PayloadLen(p.item.Payload),
                                !.expectedSeq = r.expectedSeq + 1],
                      Append(result, p.item))
    ELSE [reasm |-> r, result |-> result]

\* a Drain that pops whatever is at the root up to the expected SeqNum
RECURSIVE DrainLoopAtMost(_, _)
DrainLoopAtMost(r, result) ==
  IF Len(r.buffer) > 0 /\ At(r.buffer, 0).SeqNum <= r.expectedSeq
    THEN LET p == HeapPop(r.buffer)
         IN DrainLoopAtMost([r EXCEPT !.buffer = p.heap,
                                !.bufferedBytes = r.bufferedBytes - PayloadLen(p.item.Payload),
                                !.expectedSeq = p.item.SeqNum + 1],
                      Append(result, p.item))
    ELSE [reasm |-> r, result |-> result]

DrainAtMost(r) == DrainLoopAtMost(r, <<>>)

Drain(r) == DrainLoop(r, <<>>)

(***************************************************************************)
(* Identity mapping                                                        *)
(***************************************************************************)
RECURSIVE Xor(_, _)
Xor(a, b) ==
  IF a = 0 THEN b
  ELSE IF b = 0 THEN a
  ELSE 2 * Xor(a \div 2, b \div 2) + ((a + b) % 2)

\* v ^= v << 13; v ^= v >> 17; v ^= v << 5, on 32-bit unsigned values: a left
\* shift by n keeps the low 32 - n bits of its operand
portToID(port) ==
  LET v0 == port
      v1 == Xor(v0, (v0 % 524288) * 8192)
      v2 == Xor(v1, v1 \div 131072)
      v3 == Xor(v2, (v2 % 134217728) * 32)
  IN v3

\* the largest uint16, the type of portToID's argument
MaxUint16 == 65535

\* a uint32 as its two 16-bit halves, so that all 32 bits fit
Word(n) == [hi |-> (n \div 65536) % 65536, lo |-> n % 65536]

Pow2(n) == 2 ^ n

\* a ^ b on uint32
XorW(a, b) == [hi |-> Xor(a.hi, b.hi), lo |-> Xor(a.lo, b.lo)]

\* a << n on uint32: the bits shifted past bit 31 are lost
ShlW(a, n) ==
  IF n >= 16
    THEN [hi |-> (a.lo * Pow2(n - 16)) % 65536, lo |-> 0]
    ELSE [hi |-> ((a.hi * Pow2(n)) + (a.lo \div Pow2(16 - n))) % 65536,
          lo |-> (a.lo * Pow2(n)) % 65536]

\* a >> n on uint32
ShrW(a, n) ==
  IF n >= 16
    THEN [hi |-> 0, lo |-> a.hi \div Pow2(n - 16)]
    ELSE [hi |-> a.hi \div Pow2(n),
          lo |-> (a.lo \div Pow2(n)) + (a.hi % Pow2(n)) * Pow2(16 - n)]

\* a portToID whose second step shifts without mixing
portToIDShifted(port) ==
  LET v0 == Word(port)
      v1 == XorW(v0, ShlW(v0, 13))
      v2 == ShrW(v1, 17)
      v3 == XorW(v2, ShlW(v2, 5))
  IN v3

\* portToID on the full uint32 range: v := uint32(port); v ^= v << 13;
\* v ^= v >> 17; v ^= v << 5
portToIDWord(port) ==
  LET v0 == Word(port)
      v1 == XorW(v0, ShlW(v0, 13))
      v2 == XorW(v1, ShrW(v1, 17))
      v3 == XorW(v2, ShlW(v2, 5))
  IN v3

(***************************************************************************)
(* State                                                                   *)
(***************************************************************************)
VARIABLES
  rsm,          \* SpecR: the Reassembler under test
  rOut,         \* SpecR: the lists returned by Drain so far, concatenated
  rIn,          \* SpecR: the SeqNums given to Push so far, in call order
  rLast,        \* SpecR: the last call made, "new", "push" or "drain"
  sockets,      \* every Socket created so far, by side and creation index
  nSock,        \* number of Sockets created so far on each side
  routes,       \* adapter.routes of each side: SocketID -> Socket (0: no entry)
  cbs,          \* host OnPacket callbacks that missed in deliver and still run
  net,          \* packets in flight, by destination side
  ctxCancelled, \* the context given to RunAsHost / RunAsClient is cancelled
  trClosed,     \* the transport of the side is closed
  exited,       \* the process of the side has ended
  nDup,         \* packets duplicated by the transport so far
  nLost,        \* packets lost by the transport so far
  nFed,         \* packets the test peer has injected so far
  wroteLog,     \* per side and SocketID: payloads written to local TCP
  readLog,      \* per side and SocketID: payloads readLoop read from local TCP
  sInbox,       \* sender.inbox: packets queued for the loop
  sBlocked,     \* bag of the packets whose send call waits in its select
  drainSignal,  \* sender.drainSignal: 1 when it holds a notification
  sPc,          \* sender.loop: "waitOpen", "select", "waitDrain", "send", "exit"
  sPkt,         \* the packet the loop has taken from the inbox and not sent yet
  openSignal,   \* Transport.openSignal is closed
  sCtx,         \* the transport context is cancelled
  dcClosed,     \* the DataChannel is closed
  dcBuf,        \* sizes of the messages submitted and not yet transmitted
  dcSent,       \* packets submitted to the DataChannel, in order
  nSend,        \* Send* calls made so far
  sNote,        \* what held when the context was cancelled
  fnArg,        \* pure functions: the argument of the call under test
  fnRet,        \* pure functions: what the last call returned
  fnPc          \* pure functions: "off", "arg", "encoded", "decoded", "id"

varsR == <<rsm, rOut, rIn, rLast>>

varsF == <<fnArg, fnRet, fnPc>>

varsS == <<sInbox, sBlocked, drainSignal, sPc, sPkt, openSignal, sCtx, dcClosed,
           dcBuf, dcSent, nSend, sNote>>

varsT == <<sockets, nSock, routes, cbs, net, ctxCancelled, trClosed, exited, nDup,
           nLost, nFed, wroteLog, readLog>>

vars == <<rsm, rOut, rIn, rLast, sockets, nSock, routes, cbs, net, ctxCancelled,
          trClosed, exited, nDup, nLost, nFed, wroteLog, readLog,
          sInbox, sBlocked, drainSignal, sPc, sPkt, openSignal, sCtx, dcClosed,
          dcBuf, dcSent, nSend, sNote,
          fnArg, fnRet, fnPc>>

(***************************************************************************)
(* Sockets                                                                 *)
(***************************************************************************)
Side == {"client", "host"}

Other(side) == IF side = "client" THEN "host" ELSE "client"

Slots == 1..MaxSock

Keys == Side \X Slots

Ports == 1..MaxPort

IDs == { portToID(p) : p \in Ports }

\* the payload of the j-th read of the local connection accepted as Socket i
Chunk(i, j) == [len |-> 1, tag |-> 10 * i + j]

\* a load of the counter that adds nothing to it
SeqGenLoad(val) == val

\* SeqGen.Next: s.val.Add(1), one atomic step that returns the new value
SeqGenNext(val) == val + 1

\* newSocket: a child context of the parent, an empty inbox, a SeqGen at 0 and
\* a new Reassembler; no goroutine of the Socket has been started
newSocket(id) ==
  [ used |-> TRUE, id |-> id, port |-> 0,
    cancelled |-> FALSE, closeOnce |-> "new",
    inbox |-> <<>>, seq |-> 0, reasm |-> NewReassembler,
    tcpConn |-> "nil", peerClosed |-> FALSE,
    connected |-> FALSE, drained |-> <<>>, buf |-> NoPayload,
    run |-> "none", push |-> "none", drain |-> "none", read |-> "none",
    waiter |-> "none",
    written |-> <<>>, nRead |-> 0, unconnData |-> 0, early |-> 0,
    nCancel |-> 0, nClose |-> 0, nSendClose |-> 0, nDrop |-> 0 ]

newSocketWithConn(id, port) ==
  [newSocket(id) EXCEPT !.tcpConn = "open", !.port = port]

NoSocket == [newSocket(0) EXCEPT !.used = FALSE]

\* the goroutines of Socket k run: it was created and its process has not ended
Runs(k) == sockets[k].used /\ ~exited[k[1]]

\* s.ctx is done: s.cancel was called or the parent context is cancelled
TokenFired(k) == sockets[k].cancelled \/ ctxCancelled[k[1]]

\* Transport.Done: the transport context is a child of the CLI context
Done(side) == trClosed[side] \/ ctxCancelled[side]

\* Send*: the packet is handed to the transport towards the peer, which
\* carries nothing once it is done
SendTo(side, pkt) ==
  IF Done(side) THEN net
  ELSE [net EXCEPT ![Other(side)] = @ (+) SetToBag({pkt})]

\* a send on s.inbox that takes the packet whatever the inbox holds
EnqueueBeyondCap(s, pkt) == [s EXCEPT !.inbox = Append(@, pkt)]

\* the non-blocking send on s.inbox in deliver; nDrop counts the warnings of
\* its default case
Enqueue(s, pkt) ==
  IF Len(s.inbox) < inboxCap THEN [s EXCEPT !.inbox = Append(@, pkt)]
  ELSE [s EXCEPT !.nDrop = @ + 1]

Log(log, side, id, pl) == [log EXCEPT ![side][id] = Append(@, pl.tag)]

InitT ==
  /\ sockets = [k \in Keys |-> NoSocket]
  /\ nSock = [sd \in Side |-> 0]
  /\ routes = [sd \in Side |-> [id \in IDs |-> 0]]
  /\ cbs = EmptyBag
  /\ net = [sd \in Side |-> EmptyBag]
  /\ ctxCancelled = [sd \in Side |-> FALSE]
  /\ trClosed = [sd \in Side |-> FALSE]
  /\ exited = [sd \in Side |-> FALSE]
  /\ nDup = 0
  /\ nLost = 0
  /\ nFed = 0
  /\ wroteLog = [sd \in Side |-> [id \in IDs |-> <<>>]]
  /\ readLog = [sd \in Side |-> [id \in IDs |-> <<>>]]

(***************************************************************************)
(* Client: the accept loop and runAsClient                                 *)
(***************************************************************************)
\* The accept loop takes a local connection coming from `port`.  The listener
\* cannot hand out a second connection from a port while the Socket of the
\* earlier one still holds its end open, so a port comes again only after
\* cleanup has closed the earlier connection; with reuse = FALSE a port is
\* handed out once.
Accept(port, maxConn, reuse) ==
  LET i == nSock["client"] + 1
      k == <<"client", i>>
      id == portToID(port)
  IN /\ nSock["client"] < maxConn
     /\ ~ctxCancelled["client"]
     /\ \A j \in 1..nSock["client"] :
          sockets[<<"client", j>>].port = port
            => (reuse /\ sockets[<<"client", j>>].tcpConn = "closed")
     /\ sockets' = [sockets EXCEPT ![k] =
                      [newSocketWithConn(id, port) EXCEPT !.run = "start", !.waiter = "wait"]]
     /\ nSock' = [nSock EXCEPT !["client"] = i]
     /\ routes' = [routes EXCEPT !["client"][id] = i]
     /\ UNCHANGED <<nFed, cbs, net, ctxCancelled, trClosed, exited, nDup, nLost, wroteLog, readLog>>
     /\ UNCHANGED <<varsR, varsS, varsF>>

\* a runAsClient that sends its CONNECT and comes back to send it again
RunAsClientStartAgain(i) ==
  LET k == <<"client", i>>
      s == sockets[k]
  IN /\ Runs(k) /\ s.run = "start" /\ s.seq < 2
     /\ net' = SendTo("client", Packet(TypeConnect, s.id, SeqGenNext(s.seq), NoPayload))
     /\ sockets' = [sockets EXCEPT ![k] = [s EXCEPT !.seq = SeqGenNext(s.seq)]]
     /\ UNCHANGED <<nFed, nSock, routes, cbs, ctxCancelled, trClosed, exited, nDup, nLost, wroteLog, readLog>>
     /\ UNCHANGED <<varsR, varsS, varsF>>

\* runAsClient up to its wait: SendConnect with the first sequence number,
\* then the three loops are started
RunAsClientStart(i) ==
  LET k == <<"client", i>>
      s == sockets[k]
  IN /\ Runs(k) /\ s.run = "start"
     /\ net' = SendTo("client", Packet(TypeConnect, s.id, SeqGenNext(s.seq), NoPayload))
     /\ sockets' = [sockets EXCEPT ![k] =
                      [s EXCEPT !.seq = SeqGenNext(s.seq), !.run = "wait", !.push = "loop",
                                !.drain = "wait", !.read = "read"]]
     /\ UNCHANGED <<nFed, nSock, routes, cbs, ctxCancelled, trClosed, exited, nDup, nLost, wroteLog, readLog>>
     /\ UNCHANGED <<varsR, varsS, varsF>>

(***************************************************************************)
(* pushLoop                                                                *)
(***************************************************************************)
\* the Reassembler has not been given the packet with SeqNum 1 yet
HoldsNoFirst(r) ==
  r.expectedSeq = 1 /\ \A j \in DOMAIN r.buffer : r.buffer[j].SeqNum # 1

PushLoopRecv(k) ==
  LET s == sockets[k]
      res == Push(s.reasm, Head(s.inbox))
  IN /\ Runs(k) /\ s.push = "loop"
     /\ s.inbox # <<>>
     /\ sockets' = [sockets EXCEPT ![k] =
                      [s EXCEPT !.inbox = Tail(s.inbox), !.reasm = res.reasm,
                                !.push = IF res.overflow THEN "cleanup" ELSE "loop",
                                !.early = IF Head(s.inbox).Type = TypeData /\ HoldsNoFirst(s.reasm)
                                            THEN 1 ELSE s.early]]
     /\ UNCHANGED <<nFed, nSock, routes, cbs, net, ctxCancelled, trClosed, exited, nDup, nLost, wroteLog, readLog>>
     /\ UNCHANGED <<varsR, varsS, varsF>>

(***************************************************************************)
(* writeLoop and writeOrConnLoop                                           *)
(***************************************************************************)
\* case <-s.reasm.Ready()
DrainReady(k) ==
  /\ Runs(k) /\ sockets[k].drain = "wait"
  /\ sockets[k].reasm.notify = 1
  /\ sockets' = [sockets EXCEPT ![k].reasm.notify = 0, ![k].drain = "drain"]
  /\ UNCHANGED <<nFed, nSock, routes, cbs, net, ctxCancelled, trClosed, exited, nDup, nLost, wroteLog, readLog>>
  /\ UNCHANGED <<varsR, varsS, varsF>>

\* s.reasm.Drain(), the list the loop then ranges over
DrainCall(k) ==
  LET s == sockets[k]
      res == Drain(s.reasm)
  IN /\ Runs(k) /\ s.drain = "drain"
     /\ sockets' = [sockets EXCEPT ![k] =
                      [s EXCEPT !.reasm = res.reasm, !.drained = res.result,
                                !.drain = IF res.result = <<>> THEN "wait" ELSE "item"]]
     /\ UNCHANGED <<nFed, nSock, routes, cbs, net, ctxCancelled, trClosed, exited, nDup, nLost, wroteLog, readLog>>
     /\ UNCHANGED <<varsR, varsS, varsF>>

\* what s.tcpConn.Write can return
WriteOutcomes(s) ==
  IF s.tcpConn = "closed" THEN {"err"}
  ELSE IF s.peerClosed THEN {"ok", "err"}
  ELSE {"ok"}

\* the loop is done with the head of the drained list
NextItem(s) ==
  [s EXCEPT !.drained = Tail(s.drained),
            !.drain = IF Tail(s.drained) = <<>> THEN "wait" ELSE "item"]

\* the loop returns: its deferred cleanup is next
LoopReturn(s) == [s EXCEPT !.drained = <<>>, !.drain = "cleanup"]

\* the DATA case of both loops: one Write of the payload
WriteData(k, out) ==
  LET s == sockets[k]
      d == Head(s.drained)
  IN /\ out \in WriteOutcomes(s)
     /\ IF out = "ok"
          THEN /\ sockets' = [sockets EXCEPT ![k] =
                                [NextItem(s) EXCEPT !.written = Append(s.written, d.Payload.tag)]]
               /\ wroteLog' = Log(wroteLog, k[1], s.id, d.Payload)
          ELSE /\ sockets' = [sockets EXCEPT ![k] = LoopReturn(s)]
               /\ UNCHANGED wroteLog

\* a writeLoop that returns on a packet that is neither DATA nor CLOSE
WriteLoopItemStrict(i, out) ==
  LET k == <<"client", i>>
      s == sockets[k]
      d == Head(s.drained)
  IN /\ Runs(k) /\ s.drain = "item"
     /\ CASE d.Type = TypeData -> WriteData(k, out)
          [] OTHER ->
               /\ out = "ok"
               /\ sockets' = [sockets EXCEPT ![k] = LoopReturn(s)]
               /\ UNCHANGED wroteLog
     /\ UNCHANGED <<nFed, nSock, routes, cbs, net, ctxCancelled, trClosed, exited, nDup, nLost, readLog>>
     /\ UNCHANGED <<varsR, varsS, varsF>>

\* writeLoop, one packet of the drained list
WriteLoopItem(i, out) ==
  LET k == <<"client", i>>
      s == sockets[k]
      d == Head(s.drained)
  IN /\ Runs(k) /\ s.drain = "item"
     /\ CASE d.Type = TypeData -> WriteData(k, out)
          [] d.Type = TypeClose ->
               /\ out = "ok"
               /\ sockets' = [sockets EXCEPT ![k] = LoopReturn(s)]
               /\ UNCHANGED wroteLog
          [] OTHER ->
               /\ out = "ok"
               /\ sockets' = [sockets EXCEPT ![k] = NextItem(s)]
               /\ UNCHANGED wroteLog
     /\ UNCHANGED <<nFed, nSock, routes, cbs, net, ctxCancelled, trClosed, exited, nDup, nLost, readLog>>
     /\ UNCHANGED <<varsR, varsS, varsF>>

\* a DATA case that writes whether or not the dial has happened
DataIsWrittenAlways(s) == TRUE

\* the DATA case of writeOrConnLoop looks at `connected` first
DataIsWritten(s) == s.connected

\* writeOrConnLoop, one packet of the drained list; a first CONNECT starts
\* the dial and stays at the head of the list until the dial returns
WriteOrConnLoopItem(i, out) ==
  LET k == <<"host", i>>
      s == sockets[k]
      d == Head(s.drained)
  IN /\ Runs(k) /\ s.drain = "item"
     /\ CASE d.Type = TypeConnect ->
               /\ out = "ok"
               /\ sockets' = [sockets EXCEPT ![k] =
                                IF s.connected THEN NextItem(s)
                                ELSE [s EXCEPT !.drain = "dial"]]
               /\ UNCHANGED wroteLog
          [] d.Type = TypeData ->
               IF DataIsWritten(s)
                 THEN WriteData(k, out)
                 ELSE /\ out = "ok"
                      /\ sockets' = [sockets EXCEPT ![k] =
                                       [NextItem(s) EXCEPT !.unconnData = s.unconnData + 1]]
                      /\ UNCHANGED wroteLog
          [] d.Type = TypeClose ->
               /\ out = "ok"
               /\ sockets' = [sockets EXCEPT ![k] = LoopReturn(s)]
               /\ UNCHANGED wroteLog
          [] OTHER ->
               /\ out = "ok"
               /\ sockets' = [sockets EXCEPT ![k] = NextItem(s)]
               /\ UNCHANGED wroteLog
     /\ UNCHANGED <<nFed, nSock, routes, cbs, net, ctxCancelled, trClosed, exited, nDup, nLost, readLog>>
     /\ UNCHANGED <<varsR, varsS, varsF>>

\* a dial whose failure lets the loop go on with the next packet
HostDialGoesOn(i, ok) ==
  LET k == <<"host", i>>
      s == sockets[k]
  IN /\ Runs(k) /\ s.drain = "dial"
     /\ sockets' = [sockets EXCEPT ![k] =
                      IF ok
                        THEN [NextItem(s) EXCEPT !.tcpConn = "open", !.connected = TRUE,
                                                 !.read = "read"]
                        ELSE NextItem(s)]
     /\ UNCHANGED <<nFed, nSock, routes, cbs, net, ctxCancelled, trClosed, exited, nDup, nLost, wroteLog, readLog>>
     /\ UNCHANGED <<varsR, varsS, varsF>>

\* net.Dial returns: on success s.tcpConn is set, connected becomes true and
\* readLoop is started; on failure the loop returns
HostDial(i, ok) ==
  LET k == <<"host", i>>
      s == sockets[k]
  IN /\ Runs(k) /\ s.drain = "dial"
     /\ sockets' = [sockets EXCEPT ![k] =
                      IF ok
                        THEN [NextItem(s) EXCEPT !.tcpConn = "open", !.connected = TRUE,
                                                 !.read = "read"]
                        ELSE LoopReturn(s)]
     /\ UNCHANGED <<nFed, nSock, routes, cbs, net, ctxCancelled, trClosed, exited, nDup, nLost, wroteLog, readLog>>
     /\ UNCHANGED <<varsR, varsS, varsF>>

(***************************************************************************)
(* readLoop                                                                *)
(***************************************************************************)
\* what the local peer has sent and readLoop has not read yet: the client's
\* application sends up to maxData chunks, the host's target echoes what was
\* written to it when it is an echo service and sends nothing otherwise
Readable(k, maxData, echo) ==
  LET s == sockets[k]
  IN IF k[1] = "client"
       THEN IF s.nRead < maxData THEN <<Chunk(k[2], s.nRead + 1)>> ELSE <<>>
       ELSE IF echo /\ s.nRead < Len(s.written)
              THEN <<[len |-> 1, tag |-> s.written[s.nRead + 1]]>> ELSE <<>>

\* s.tcpConn.Read returns n > 0
ReadLoopRead(k, maxData, echo) ==
  LET s == sockets[k]
      av == Readable(k, maxData, echo)
  IN /\ Runs(k) /\ s.read = "read"
     /\ s.tcpConn = "open" /\ ~s.peerClosed
     /\ av # <<>>
     /\ sockets' = [sockets EXCEPT ![k] =
                      [s EXCEPT !.buf = av[1], !.nRead = s.nRead + 1, !.read = "send"]]
     /\ readLog' = Log(readLog, k[1], s.id, av[1])
     /\ UNCHANGED <<nFed, nSock, routes, cbs, net, ctxCancelled, trClosed, exited, nDup, nLost, wroteLog>>
     /\ UNCHANGED <<varsR, varsS, varsF>>

\* s.tcpConn.Read returns an error: io.EOF after the peer closed, or the error
\* of a connection that cleanup closed
ReadLoopErr(k) ==
  LET s == sockets[k]
  IN /\ Runs(k) /\ s.read = "read"
     /\ s.tcpConn = "closed" \/ s.peerClosed
     /\ sockets' = [sockets EXCEPT ![k].read = "cleanup"]
     /\ UNCHANGED <<nFed, nSock, routes, cbs, net, ctxCancelled, trClosed, exited, nDup, nLost, wroteLog, readLog>>
     /\ UNCHANGED <<varsR, varsS, varsF>>

\* s.tr.SendData(s.id, s.seq.Next(), payload)
ReadLoopSend(k) ==
  LET s == sockets[k]
  IN /\ Runs(k) /\ s.read = "send"
     /\ net' = SendTo(k[1], Packet(TypeData, s.id, SeqGenNext(s.seq), s.buf))
     /\ sockets' = [sockets EXCEPT ![k] =
                      [s EXCEPT !.seq = SeqGenNext(s.seq), !.buf = NoPayload, !.read = "read"]]
     /\ UNCHANGED <<nFed, nSock, routes, cbs, ctxCancelled, trClosed, exited, nDup, nLost, wroteLog, readLog>>
     /\ UNCHANGED <<varsR, varsS, varsF>>

\* the application or the target closes its end of the local connection
PeerClose(k) ==
  /\ Runs(k) /\ sockets[k].tcpConn = "open" /\ ~sockets[k].peerClosed
  /\ sockets' = [sockets EXCEPT ![k].peerClosed = TRUE]
  /\ UNCHANGED <<nFed, nSock, routes, cbs, net, ctxCancelled, trClosed, exited, nDup, nLost, wroteLog, readLog>>
  /\ UNCHANGED <<varsR, varsS, varsF>>

(***************************************************************************)
(* cleanup                                                                 *)
(***************************************************************************)
\* a pushLoop that returns on overflow without calling cleanup
InCleanupNoPush(k) ==
  LET s == sockets[k]
  IN \/ s.drain = "cleanup" \/ s.read = "cleanup"
     \/ TokenFired(k) /\ (s.run = "wait" \/ s.push = "loop" \/ s.drain = "wait")

\* A goroutine of the Socket is in its deferred s.cleanup(), or can be: a loop
\* has returned, or s.ctx is done and a goroutine waits in a select with the
\* case <-s.ctx.Done() (runAsHost and runAsClient do from their start on).  A
\* loop at its select keeps its other cases: with s.ctx done, select may still
\* take them.
InCleanup(k) ==
  LET s == sockets[k]
  IN \/ s.push = "cleanup" \/ s.drain = "cleanup" \/ s.read = "cleanup"
     \/ TokenFired(k) /\ (s.run = "wait" \/ s.push = "loop" \/ s.drain = "wait")

\* a Once that lets the body run again after it has run
OnceDoRunsAgain(s) == s.closeOnce \in {"new", "done"}

\* s.closeOnce.Do runs the body for the first caller only
OnceDoRuns(s) == s.closeOnce = "new"

\* the body of cleanup, first statement: s.cancel()
CleanupCancel(k) ==
  LET s == sockets[k]
  IN /\ Runs(k) /\ InCleanup(k)
     /\ OnceDoRuns(s)
     /\ sockets' = [sockets EXCEPT ![k] =
                      [s EXCEPT !.cancelled = TRUE, !.nCancel = s.nCancel + 1,
                                !.closeOnce = "close"]]
     /\ UNCHANGED <<nFed, nSock, routes, cbs, net, ctxCancelled, trClosed, exited, nDup, nLost, wroteLog, readLog>>
     /\ UNCHANGED <<varsR, varsS, varsF>>

\* if s.tcpConn != nil { s.tcpConn.Close() }
CleanupClose(k) ==
  LET s == sockets[k]
  IN /\ Runs(k) /\ s.closeOnce = "close"
     /\ sockets' = [sockets EXCEPT ![k] =
                      IF s.tcpConn = "nil" THEN [s EXCEPT !.closeOnce = "send"]
                      ELSE [s EXCEPT !.tcpConn = "closed", !.nClose = s.nClose + 1,
                                     !.closeOnce = "send"]]
     /\ UNCHANGED <<nFed, nSock, routes, cbs, net, ctxCancelled, trClosed, exited, nDup, nLost, wroteLog, readLog>>
     /\ UNCHANGED <<varsR, varsS, varsF>>

\* s.tr.SendClose(s.id, s.seq.Next()); the body is over
CleanupSendClose(k) ==
  LET s == sockets[k]
  IN /\ Runs(k) /\ s.closeOnce = "send"
     /\ net' = SendTo(k[1], Packet(TypeClose, s.id, SeqGenNext(s.seq), NoPayload))
     /\ sockets' = [sockets EXCEPT ![k] =
                      [s EXCEPT !.seq = SeqGenNext(s.seq), !.nSendClose = s.nSendClose + 1,
                                !.closeOnce = "done"]]
     /\ UNCHANGED <<nFed, nSock, routes, cbs, ctxCancelled, trClosed, exited, nDup, nLost, wroteLog, readLog>>
     /\ UNCHANGED <<varsR, varsS, varsF>>

(***************************************************************************)
(* adapter: route table and dispatch                                       *)
(***************************************************************************)
\* a waiter that ends without deleting the route entry
WaiterKeepsRoute(k) ==
  LET s == sockets[k]
  IN /\ Runs(k) /\ s.waiter = "wait"
     /\ TokenFired(k)
     /\ sockets' = [sockets EXCEPT ![k].waiter = "done"]
     /\ UNCHANGED <<nFed, nSock, routes, cbs, net, ctxCancelled, trClosed, exited, nDup, nLost, wroteLog, readLog>>
     /\ UNCHANGED <<varsR, varsS, varsF>>

\* the goroutine register / registerOrGet start: <-s.ctx.Done(), then
\* delete(a.routes, s.id)
WaiterRemove(k) ==
  LET s == sockets[k]
  IN /\ Runs(k) /\ s.waiter = "wait"
     /\ TokenFired(k)
     /\ routes' = [routes EXCEPT ![k[1]][s.id] = 0]
     /\ sockets' = [sockets EXCEPT ![k].waiter = "done"]
     /\ UNCHANGED <<nFed, nSock, cbs, net, ctxCancelled, trClosed, exited, nDup, nLost, wroteLog, readLog>>
     /\ UNCHANGED <<varsR, varsS, varsF>>

\* deliver: the route lookup and the non-blocking send on the inbox
Deliver(side, pkt) ==
  LET i == routes[side][pkt.SocketID]
  IN IF i = 0 THEN sockets
     ELSE [sockets EXCEPT ![<<side, i>>] = Enqueue(@, pkt)]

Routed(side, pkt) == routes[side][pkt.SocketID] # 0

\* a host callback that creates a Socket for a CLOSE as well
HostDropsUnknownNever(pkt) == FALSE

\* the host callback returns on an unrouted CLOSE
HostDropsUnknown(pkt) == pkt.Type = TypeClose

\* RunAsHost's OnPacket callback, from its start to the return after the
\* first deliver or after the CLOSE test
HostOnPacket(pkt) ==
  /\ BagIn(pkt, net["host"])
  /\ ~Done("host")
  /\ net' = [net EXCEPT !["host"] = @ (-) SetToBag({pkt})]
  /\ IF Routed("host", pkt)
       THEN /\ sockets' = Deliver("host", pkt)
            /\ UNCHANGED cbs
       ELSE IF HostDropsUnknown(pkt)
         THEN UNCHANGED <<sockets, cbs>>
         ELSE /\ BagCardinality(cbs) < MaxCb
              /\ cbs' = cbs (+) SetToBag({[pkt |-> pkt, pc |-> "register", created |-> FALSE]})
              /\ UNCHANGED sockets
  /\ UNCHANGED <<nFed, nSock, routes, ctxCancelled, trClosed, exited, nDup, nLost, wroteLog, readLog>>
  /\ UNCHANGED <<varsR, varsS, varsF>>

\* a registerOrGet that does not look the SocketID up
RouteFoundNever(rt, id) == FALSE

\* registerOrGet: if s, ok := a.routes[id]; ok
RouteFound(rt, id) == rt[id] # 0

\* registerOrGet under the adapter's lock, and the go s.runAsHost that
\* follows when the Socket was created
HostRegisterOrGet(c, maxHost) ==
  LET id == c.pkt.SocketID
      i == nSock["host"] + 1
      rest == cbs (-) SetToBag({c})
  IN /\ BagIn(c, cbs) /\ c.pc = "register" /\ ~exited["host"]
     /\ IF RouteFound(routes["host"], id)
          THEN /\ cbs' = rest (+) SetToBag({[c EXCEPT !.pc = "deliver"]})
               /\ UNCHANGED <<sockets, nSock, routes>>
          ELSE /\ nSock["host"] < maxHost
               /\ sockets' = [sockets EXCEPT ![<<"host", i>>] =
                                [newSocket(id) EXCEPT !.run = "wait", !.push = "loop",
                                                      !.drain = "wait", !.waiter = "wait"]]
               /\ nSock' = [nSock EXCEPT !["host"] = i]
               /\ routes' = [routes EXCEPT !["host"][id] = i]
               /\ cbs' = rest (+) SetToBag({[c EXCEPT !.pc = "deliver", !.created = TRUE]})
     /\ UNCHANGED <<nFed, net, ctxCancelled, trClosed, exited, nDup, nLost, wroteLog, readLog>>
     /\ UNCHANGED <<varsR, varsS, varsF>>

\* the second deliver of the host callback
HostDeliver(c) ==
  /\ BagIn(c, cbs) /\ c.pc = "deliver" /\ ~exited["host"]
  /\ sockets' = Deliver("host", c.pkt)
  /\ cbs' = cbs (-) SetToBag({c})
  /\ UNCHANGED <<nFed, nSock, routes, net, ctxCancelled, trClosed, exited, nDup, nLost, wroteLog, readLog>>
  /\ UNCHANGED <<varsR, varsS, varsF>>

\* RunAsClient's OnPacket callback
ClientOnPacket(pkt) ==
  /\ BagIn(pkt, net["client"])
  /\ ~Done("client")
  /\ net' = [net EXCEPT !["client"] = @ (-) SetToBag({pkt})]
  /\ sockets' = Deliver("client", pkt)
  /\ UNCHANGED <<nFed, nSock, routes, cbs, ctxCancelled, trClosed, exited, nDup, nLost, wroteLog, readLog>>
  /\ UNCHANGED <<varsR, varsS, varsF>>

(***************************************************************************)
(* Environment: the transport and the contexts                             *)
(***************************************************************************)
NetLose(side, pkt, maxLost) ==
  /\ BagIn(pkt, net[side])
  /\ nLost < maxLost
  /\ net' = [net EXCEPT ![side] = @ (-) SetToBag({pkt})]
  /\ nLost' = nLost + 1
  /\ UNCHANGED <<nFed, sockets, nSock, routes, cbs, ctxCancelled, trClosed, exited, nDup, wroteLog, readLog>>
  /\ UNCHANGED <<varsR, varsS, varsF>>

NetDup(side, pkt, maxDup) ==
  /\ BagIn(pkt, net[side])
  /\ nDup < maxDup
  /\ net' = [net EXCEPT ![side] = @ (+) SetToBag({pkt})]
  /\ nDup' = nDup + 1
  /\ UNCHANGED <<nFed, sockets, nSock, routes, cbs, ctxCancelled, trClosed, exited, nLost, wroteLog, readLog>>
  /\ UNCHANGED <<varsR, varsS, varsF>>

\* a test peer hands one more packet to the transport towards `side`
Feed(side, pkt, maxFeed) ==
  /\ nFed < maxFeed
  /\ net' = [net EXCEPT ![side] = @ (+) SetToBag({pkt})]
  /\ nFed' = nFed + 1
  /\ UNCHANGED <<sockets, nSock, routes, cbs, ctxCancelled, trClosed, exited, nDup, nLost, wroteLog, readLog>>
  /\ UNCHANGED <<varsR, varsS, varsF>>

\* a test peer that sends its next packet once the last one was taken, until
\* maxDrop packets were dropped at a full inbox
Flood(side, pkt, maxDrop) ==
  /\ net[side] = EmptyBag
  /\ \A k \in Keys : sockets[k].nDrop < maxDrop
  /\ net' = [net EXCEPT ![side] = @ (+) SetToBag({pkt})]
  /\ UNCHANGED <<nFed, sockets, nSock, routes, cbs, ctxCancelled, trClosed, exited, nDup, nLost, wroteLog, readLog>>
  /\ UNCHANGED <<varsR, varsS, varsF>>

\* the context handed to RunAsHost / RunAsClient is cancelled
CtxCancel(side) ==
  /\ ~ctxCancelled[side]
  /\ ctxCancelled' = [ctxCancelled EXCEPT ![side] = TRUE]
  /\ UNCHANGED <<nFed, sockets, nSock, routes, cbs, net, trClosed, exited, nDup, nLost, wroteLog, readLog>>
  /\ UNCHANGED <<varsR, varsS, varsF>>

\* the transport closes or fails: Done fires on both ends
TransportClose ==
  /\ \E sd \in Side : ~trClosed[sd]
  /\ trClosed' = [sd \in Side |-> TRUE]
  /\ UNCHANGED <<nFed, sockets, nSock, routes, cbs, net, ctxCancelled, exited, nDup, nLost, wroteLog, readLog>>
  /\ UNCHANGED <<varsR, varsS, varsF>>

\* tr.Done() fires with the context still live: RunAsHost / RunAsClient
\* return, runHost / runClient return through their deferred tr.Close(), and
\* main returns through its deferred stop(), which cancels the context
RunReturns(side) ==
  /\ trClosed[side] /\ ~ctxCancelled[side] /\ ~exited[side]
  /\ ctxCancelled' = [ctxCancelled EXCEPT ![side] = TRUE]
  /\ UNCHANGED <<nFed, sockets, nSock, routes, cbs, net, trClosed, exited, nDup, nLost, wroteLog, readLog>>
  /\ UNCHANGED <<varsR, varsS, varsF>>

\* main has returned: the process ends, whatever its goroutines were doing
ProcessExit(side) ==
  /\ trClosed[side] /\ ctxCancelled[side] /\ ~exited[side]
  /\ exited' = [exited EXCEPT ![side] = TRUE]
  /\ UNCHANGED <<nFed, sockets, nSock, routes, cbs, net, ctxCancelled, trClosed, nDup, nLost, wroteLog, readLog>>
  /\ UNCHANGED <<varsR, varsS, varsF>>

(***************************************************************************)
(* Sender: the goroutine that writes every packet to the DataChannel       *)
(***************************************************************************)
\* the size of the message Encode makes of a packet
EncodedLen(pkt) == HeaderSize + PayloadLen(pkt.Payload)

RECURSIVE SumSeq(_)
SumSeq(q) == IF q = <<>> THEN 0 ELSE Head(q) + SumSeq(Tail(q))

\* dc.BufferedAmount()
BufferedAmount == SumSeq(dcBuf)

NoPacket == Packet(0, 0, 0, NoPayload)

\* the packet of a Send* call: readLoop's DATA with a full buffer.  The Sender
\* reads nothing but the type and the length of a packet, so one packet
\* stands for all.
SendPacket == Packet(TypeData, 7, 1, [len |-> maxPayloadSize, tag |-> 1])

\* newSender: empty channels, the loop started and at its first select
InitS ==
  /\ sInbox = <<>>
  /\ sBlocked = EmptyBag
  /\ drainSignal = 0
  /\ sPc = "waitOpen"
  /\ sPkt = NoPacket
  /\ openSignal = FALSE
  /\ sCtx = FALSE
  /\ dcClosed = FALSE
  /\ dcBuf = <<>>
  /\ dcSent = <<>>
  /\ nSend = 0
  /\ sNote = [cancelBeforeOpen |-> FALSE, heldAtCancel |-> FALSE, sentAtCancel |-> 0]

\* a send that gives the packet up when the inbox has no room
SelectSendOrDrop(pkt) ==
  \/ /\ Len(sInbox) < sendBufferSize
     /\ sInbox' = Append(sInbox, pkt)
     /\ UNCHANGED sBlocked
  \/ /\ Len(sInbox) >= sendBufferSize \/ sCtx
     /\ UNCHANGED <<sInbox, sBlocked>>

\* the select of sender.send as the caller reaches it: it takes a case that
\* is ready, and waits when none is
SelectSend(pkt) ==
  \/ /\ Len(sInbox) < sendBufferSize
     /\ sInbox' = Append(sInbox, pkt)
     /\ UNCHANGED sBlocked
  \/ /\ sCtx
     /\ UNCHANGED <<sInbox, sBlocked>>
  \/ /\ Len(sInbox) >= sendBufferSize /\ ~sCtx
     /\ sBlocked' = sBlocked (+) SetToBag({pkt})
     /\ UNCHANGED sInbox

\* Transport.SendConnect / SendClose / SendData: sender.send(t.ctx, pkt)
SendCall(maxSend) ==
  /\ nSend < maxSend
  /\ BagCardinality(sBlocked) < MaxCallers
  /\ SelectSend(SendPacket)
  /\ nSend' = nSend + 1
  /\ UNCHANGED <<drainSignal, sPc, sPkt, openSignal, sCtx, dcClosed, dcBuf, dcSent, sNote>>
  /\ UNCHANGED <<varsR, varsT, varsF>>

\* the same call made by the Socket with SocketID id; the SeqNum of the packet
\* tells the calls apart
SendCallFrom(id, maxSend) ==
  /\ nSend < maxSend
  /\ BagCardinality(sBlocked) < MaxCallers
  /\ SelectSend(Packet(TypeData, id, nSend + 1, [len |-> maxPayloadSize, tag |-> nSend + 1]))
  /\ nSend' = nSend + 1
  /\ UNCHANGED <<drainSignal, sPc, sPkt, openSignal, sCtx, dcClosed, dcBuf, dcSent, sNote>>
  /\ UNCHANGED <<varsR, varsT, varsF>>

\* a send that waited goes on: the inbox has room, or ctx is done
SendResume(pkt) ==
  /\ BagIn(pkt, sBlocked)
  /\ \/ /\ Len(sInbox) < sendBufferSize
        /\ sInbox' = Append(sInbox, pkt)
     \/ /\ sCtx
        /\ UNCHANGED sInbox
  /\ sBlocked' = sBlocked (-) SetToBag({pkt})
  /\ UNCHANGED <<drainSignal, sPc, sPkt, openSignal, sCtx, dcClosed, dcBuf, dcSent, nSend, sNote>>
  /\ UNCHANGED <<varsR, varsT, varsF>>

\* dc.OnOpen: openOnce.Do(close(t.openSignal))
OnOpen ==
  /\ ~openSignal /\ ~dcClosed
  /\ openSignal' = TRUE
  /\ UNCHANGED <<sInbox, sBlocked, drainSignal, sPc, sPkt, sCtx, dcClosed, dcBuf, dcSent, nSend, sNote>>
  /\ UNCHANGED <<varsR, varsT, varsF>>

\* a loop that does not wait for the open signal
LoopOpenAtOnce ==
  /\ sPc = "waitOpen"
  /\ sPc' = "select"
  /\ UNCHANGED <<sInbox, sBlocked, drainSignal, sPkt, openSignal, sCtx, dcClosed, dcBuf, dcSent, nSend, sNote>>
  /\ UNCHANGED <<varsR, varsT, varsF>>

\* loop, phase 1: case <-openSignal
LoopOpen ==
  /\ sPc = "waitOpen" /\ openSignal
  /\ sPc' = "select"
  /\ UNCHANGED <<sInbox, sBlocked, drainSignal, sPkt, openSignal, sCtx, dcClosed, dcBuf, dcSent, nSend, sNote>>
  /\ UNCHANGED <<varsR, varsT, varsF>>

\* a loop whose wait for the low-water notification has no ctx.Done() case
LoopCancelledOuterOnly ==
  /\ sPc \in {"waitOpen", "select"} /\ sCtx
  /\ sPc' = "exit"
  /\ sPkt' = NoPacket
  /\ UNCHANGED <<sInbox, sBlocked, drainSignal, openSignal, sCtx, dcClosed, dcBuf, dcSent, nSend, sNote>>
  /\ UNCHANGED <<varsR, varsT, varsF>>

\* loop: case <-ctx.Done() of any of its three selects; a packet the loop
\* holds is given up
LoopCancelled ==
  /\ sPc \in {"waitOpen", "select", "waitDrain"} /\ sCtx
  /\ sPc' = "exit"
  /\ sPkt' = NoPacket
  /\ UNCHANGED <<sInbox, sBlocked, drainSignal, openSignal, sCtx, dcClosed, dcBuf, dcSent, nSend, sNote>>
  /\ UNCHANGED <<varsR, varsT, varsF>>

\* a loop that never looks at the buffered amount
OverHighWaterNever == FALSE

\* if dc.BufferedAmount() > uint64(highWaterMark)
OverHighWater == BufferedAmount > highWaterMark

\* a loop that takes the newest packet of the inbox
LoopRecvNewest ==
  /\ sPc = "select" /\ sInbox # <<>>
  /\ sPkt' = sInbox[Len(sInbox)]
  /\ sInbox' = SubSeq(sInbox, 1, Len(sInbox) - 1)
  /\ sPc' = IF OverHighWater THEN "waitDrain" ELSE "send"
  /\ UNCHANGED <<sBlocked, drainSignal, openSignal, sCtx, dcClosed, dcBuf, dcSent, nSend, sNote>>
  /\ UNCHANGED <<varsR, varsT, varsF>>

\* loop, phase 2: case pkt := <-s.inbox, and the test of the buffered amount
LoopRecv ==
  /\ sPc = "select" /\ sInbox # <<>>
  /\ sPkt' = Head(sInbox)
  /\ sInbox' = Tail(sInbox)
  /\ sPc' = IF OverHighWater THEN "waitDrain" ELSE "send"
  /\ UNCHANGED <<sBlocked, drainSignal, openSignal, sCtx, dcClosed, dcBuf, dcSent, nSend, sNote>>
  /\ UNCHANGED <<varsR, varsT, varsF>>

\* loop: case <-s.drainSignal of the inner select
LoopDrained ==
  /\ sPc = "waitDrain" /\ drainSignal = 1
  /\ drainSignal' = 0
  /\ sPc' = "send"
  /\ UNCHANGED <<sInbox, sBlocked, sPkt, openSignal, sCtx, dcClosed, dcBuf, dcSent, nSend, sNote>>
  /\ UNCHANGED <<varsR, varsT, varsF>>

\* loop: dc.Send(Encode(pkt)); it fails on a closed DataChannel and the loop
\* returns
LoopSend ==
  /\ sPc = "send"
  /\ IF dcClosed
       THEN /\ sPc' = "exit"
            /\ UNCHANGED <<dcBuf, dcSent>>
       ELSE /\ sPc' = "select"
            /\ dcBuf' = Append(dcBuf, EncodedLen(sPkt))
            /\ dcSent' = Append(dcSent, sPkt)
  /\ sPkt' = NoPacket
  /\ UNCHANGED <<sInbox, sBlocked, drainSignal, openSignal, sCtx, dcClosed, nSend, sNote>>
  /\ UNCHANGED <<varsR, varsT, varsF>>

\* the DataChannel transmits its oldest message; when the buffered amount
\* falls to the threshold set by SetBufferedAmountLowThreshold, the
\* OnBufferedAmountLow callback does its non-blocking send on drainSignal
DcTransmit ==
  /\ dcBuf # <<>> /\ ~dcClosed
  /\ dcBuf' = Tail(dcBuf)
  /\ drainSignal' = IF SumSeq(dcBuf) > lowWaterMark /\ SumSeq(Tail(dcBuf)) <= lowWaterMark
                      THEN 1 ELSE drainSignal
  /\ UNCHANGED <<sInbox, sBlocked, sPc, sPkt, openSignal, sCtx, dcClosed, dcSent, nSend, sNote>>
  /\ UNCHANGED <<varsR, varsT, varsF>>

\* the DataChannel closes, by the peer or by Transport.Close
DcClose ==
  /\ ~dcClosed
  /\ dcClosed' = TRUE
  /\ UNCHANGED <<sInbox, sBlocked, drainSignal, sPc, sPkt, openSignal, sCtx, dcBuf, dcSent, nSend, sNote>>
  /\ UNCHANGED <<varsR, varsT, varsF>>

\* the transport context is cancelled: by dc.OnClose, by Transport.Close or
\* with the parent context.  sNote records whether the open signal had fired,
\* whether the loop held a packet over the high-water mark with no
\* notification in drainSignal, and how many packets had been submitted.
TCancel ==
  /\ ~sCtx
  /\ sCtx' = TRUE
  /\ sNote' = [cancelBeforeOpen |-> ~openSignal,
               heldAtCancel |-> sPc = "waitDrain" /\ drainSignal = 0,
               sentAtCancel |-> Len(dcSent)]
  /\ UNCHANGED <<sInbox, sBlocked, drainSignal, sPc, sPkt, openSignal, dcClosed, dcBuf, dcSent, nSend>>
  /\ UNCHANGED <<varsR, varsT, varsF>>

(***************************************************************************)
(* SpecR: one Reassembler driven by arbitrary Push and Drain calls        *)
(***************************************************************************)
\* the packets a caller may push: DATA and CLOSE, SeqNum 0..MaxSeq, payloads of
\* length 1 and of a length two of which exceed the buffer limit
PushInputs ==
  { Packet(TypeData, 7, s, [len |-> n, tag |-> s]) : s \in 0..MaxSeq, n \in {1, maxBufferedBytes \div 2 + 1} }
  \cup { Packet(TypeClose, 7, s, NoPayload) : s \in 0..MaxSeq }

\* no pure function is under test
InitF ==
  /\ fnArg = 0
  /\ fnRet = <<>>
  /\ fnPc = "off"

InitRsm ==
  /\ rsm = NewReassembler
  /\ rOut = <<>>
  /\ rIn = <<>>
  /\ rLast = "new"

InitR == InitRsm /\ InitT /\ InitS /\ InitF

RPush(pkt) ==
  /\ Len(rIn) < MaxPush
  /\ rsm' = Push(rsm, pkt).reasm
  /\ rIn' = Append(rIn, pkt.SeqNum)
  /\ rLast' = "push"
  /\ UNCHANGED rOut
  /\ UNCHANGED <<varsT, varsS, varsF>>

RDrain ==
  /\ rsm' = Drain(rsm).reasm
  /\ rOut' = rOut \o Drain(rsm).result
  /\ rLast' = "drain"
  /\ UNCHANGED rIn
  /\ UNCHANGED <<varsT, varsS, varsF>>

NextR ==
  \/ \E pkt \in PushInputs : RPush(pkt)
  \/ RDrain

SpecR == InitR /\ [][NextR]_vars

(***************************************************************************)
(* Claims about the Reassembler                                            *)
(***************************************************************************)
RPushedSeqs == { rIn[i] : i \in DOMAIN rIn }

InOrderFromOne(out) == \A i \in DOMAIN out : out[i].SeqNum = i

\* C1: whatever Push and Drain calls are made, the concatenation of the lists
\* Drain returned carries the SeqNums 1, 2, ..., k in that order: it starts at 1,
\* has no gap, and holds no SeqNum twice, also when a SeqNum was pushed twice.
C1_DrainInOrder == InOrderFromOne(rOut)

\* a SeqNum was pushed twice, the first push was not SeqNum 1, and Drain has
\* returned at least two packets
C1_Witness ==
  /\ rLast = "drain"
  /\ Len(rOut) >= 2
  /\ rIn[1] > 1
  /\ \E i, j \in DOMAIN rIn : i < j /\ rIn[i] = rIn[j]

\* C2: when every SeqNum 1..N has been pushed at least once (nothing else, in any
\* order, with duplicates and late arrivals) then after a Drain the output so far
\* is exactly 1..N.
C2_AllDelivered ==
  LET N == Cardinality(RPushedSeqs)
  IN (rLast = "drain" /\ N > 0 /\ RPushedSeqs = 1..N)
       => (Len(rOut) = N /\ InOrderFromOne(rOut))

(***************************************************************************)
(* Spec: both sides of one session over a transport that reorders, loses  *)
(* and duplicates packets; local peers may close and the dial may fail    *)
(***************************************************************************)
Init == InitRsm /\ InitT /\ InitS /\ InitF

\* the steps of the loops that carry the streams
LoopStep ==
  \/ \E i \in Slots : RunAsClientStart(i)
  \/ \E k \in Keys : PushLoopRecv(k)
  \/ \E k \in Keys : DrainReady(k)
  \/ \E k \in Keys : DrainCall(k)

\* the steps that end a Socket
TeardownStep ==
  \/ \E k \in Keys : ReadLoopErr(k)
  \/ \E k \in Keys : CleanupCancel(k)
  \/ \E k \in Keys : CleanupClose(k)
  \/ \E k \in Keys : CleanupSendClose(k)
  \/ \E k \in Keys : WaiterRemove(k)

DispatchStep ==
  \/ \E pkt \in BagToSet(net["host"]) : HostOnPacket(pkt)
  \/ \E c \in BagToSet(cbs) : HostRegisterOrGet(c, MaxSock)
  \/ \E c \in BagToSet(cbs) : HostDeliver(c)
  \/ \E pkt \in BagToSet(net["client"]) : ClientOnPacket(pkt)

Next ==
  \/ \E port \in Ports : Accept(port, MaxConn, TRUE)
  \/ LoopStep
  \/ TeardownStep
  \/ DispatchStep
  \/ \E i \in Slots, out \in {"ok", "err"} : WriteLoopItem(i, out)
  \/ \E i \in Slots, out \in {"ok", "err"} : WriteOrConnLoopItem(i, out)
  \/ \E i \in Slots, ok \in BOOLEAN : HostDial(i, ok)
  \/ \E k \in Keys : ReadLoopRead(k, MaxData, FALSE)
  \/ \E k \in Keys : ReadLoopSend(k)
  \/ \E k \in Keys : PeerClose(k)
  \/ \E sd \in Side : \E pkt \in BagToSet(net[sd]) : NetLose(sd, pkt, MaxLost)
  \/ \E sd \in Side : \E pkt \in BagToSet(net[sd]) : NetDup(sd, pkt, MaxDup)

Spec == Init /\ [][Next]_vars

(***************************************************************************)
(* SpecReuse: the client accepts connections one after the other from the *)
(* same ephemeral port; the first application closes its connection, the   *)
(* transport only reorders                                                 *)
(***************************************************************************)
NextReuse ==
  \/ \E port \in Ports : Accept(port, ReuseConns, TRUE)
  \/ LoopStep
  \/ TeardownStep
  \/ DispatchStep
  \/ \E i \in Slots : WriteLoopItem(i, "ok")
  \/ \E i \in Slots : WriteOrConnLoopItem(i, "ok")
  \/ \E i \in Slots : HostDial(i, TRUE)
  \/ \E i \in Slots : ReadLoopRead(<<"client", i>>, MaxData, FALSE)
  \/ \E k \in Keys : ReadLoopSend(k)
  \/ PeerClose(<<"client", 1>>)

SpecReuse == Init /\ [][NextReuse]_vars

(***************************************************************************)
(* SpecLive: one connection to an echo service; the transport delivers     *)
(* every packet once, in any order; no endpoint closes, the dial succeeds. *)
(* Every goroutine that can take a step is scheduled, the transport        *)
(* delivers what it carries and the echo service answers.                  *)
(***************************************************************************)
TunnelStep ==
  \/ LoopStep
  \/ DispatchStep
  \/ \E i \in Slots : WriteLoopItem(i, "ok")
  \/ \E i \in Slots : WriteOrConnLoopItem(i, "ok")
  \/ \E i \in Slots : HostDial(i, TRUE)
  \/ \E k \in Keys : ReadLoopSend(k)

EchoStep == \E i \in Slots : ReadLoopRead(<<"host", i>>, LiveData, TRUE)

NextLive ==
  \/ \E port \in Ports : Accept(port, MaxConn, FALSE)
  \/ TunnelStep
  \/ \E i \in Slots : ReadLoopRead(<<"client", i>>, LiveData, TRUE)
  \/ EchoStep

SpecLive == Init /\ [][NextLive]_vars /\ WF_vars(TunnelStep) /\ WF_vars(EchoStep)

(***************************************************************************)
(* SpecDone: one connection whose target may close; the transport closes   *)
(* while the context given to the adapter is live, and the process ends as *)
(* main returns                                                            *)
(***************************************************************************)
NextDone ==
  \/ \E port \in Ports : Accept(port, MaxConn, FALSE)
  \/ LoopStep
  \/ TeardownStep
  \/ DispatchStep
  \/ \E i \in Slots : WriteLoopItem(i, "ok")
  \/ \E i \in Slots : WriteOrConnLoopItem(i, "ok")
  \/ \E i \in Slots : HostDial(i, TRUE)
  \/ \E k \in Keys : ReadLoopRead(k, MaxData, FALSE)
  \/ \E k \in Keys : ReadLoopSend(k)
  \/ \E i \in Slots : PeerClose(<<"host", i>>)
  \/ TransportClose
  \/ \E sd \in Side : RunReturns(sd)
  \/ \E sd \in Side : ProcessExit(sd)

SpecDone == Init /\ [][NextDone]_vars

(***************************************************************************)
(* SpecLoss: one connection over a transport that reorders the packets and *)
(* loses some of those sent to the host; the local peers may close and the *)
(* dial may fail                                                           *)
(***************************************************************************)
\* every step the tunnel itself can take: its goroutines and callbacks
ProgramStep ==
  \/ LoopStep
  \/ TeardownStep
  \/ DispatchStep
  \/ \E i \in Slots, out \in {"ok", "err"} : WriteLoopItem(i, out)
  \/ \E i \in Slots, out \in {"ok", "err"} : WriteOrConnLoopItem(i, out)
  \/ \E i \in Slots, ok \in BOOLEAN : HostDial(i, ok)
  \/ \E k \in Keys : ReadLoopSend(k)

NextLoss ==
  \/ \E port \in Ports : Accept(port, MaxConn, FALSE)
  \/ ProgramStep
  \/ \E k \in Keys : ReadLoopRead(k, MaxData, FALSE)
  \/ \E k \in Keys : PeerClose(k)
  \/ \E pkt \in BagToSet(net["host"]) : NetLose("host", pkt, MaxLost)

SpecLoss == Init /\ [][NextLoss]_vars

(***************************************************************************)
(* SpecFeed: the client with one local connection and a test peer in place *)
(* of the host, which injects packets of any type, SeqNum and size         *)
(***************************************************************************)
\* a payload of more than half the cap
BigChunk(n) == [len |-> maxBufferedBytes \div 2 + 1, tag |-> n]

FeedPackets ==
  { Packet(TypeConnect, id, 1, NoPayload) : id \in IDs }
  \cup { Packet(TypeData, id, n, pl) :
           id \in IDs, n \in 1..MaxFeed, pl \in {Chunk(9, 9), BigChunk(9)} }

NextFeed ==
  \/ \E port \in Ports : Accept(port, MaxConn, FALSE)
  \/ LoopStep
  \/ TeardownStep
  \/ \E pkt \in BagToSet(net["client"]) : ClientOnPacket(pkt)
  \/ \E i \in Slots, out \in {"ok", "err"} : WriteLoopItem(i, out)
  \/ \E k \in Keys : PeerClose(k)
  \/ \E pkt \in FeedPackets : Feed("client", pkt, MaxFeed)

SpecFeed == Init /\ [][NextFeed]_vars

(***************************************************************************)
(* SpecSend: the Sender with callers too few to fill its inbox, the        *)
(* DataChannel opening, transmitting and closing, and the context being    *)
(* cancelled at any time                                                   *)
(***************************************************************************)
NextSend ==
  \/ SendCall(MaxSend)
  \/ OnOpen
  \/ LoopOpen
  \/ LoopCancelled
  \/ LoopRecv
  \/ LoopDrained
  \/ LoopSend
  \/ DcTransmit
  \/ DcClose
  \/ TCancel

SpecSend == Init /\ [][NextSend]_vars

(***************************************************************************)
(* SpecFull: the Sender with a DataChannel that opens late and transmits   *)
(* nothing, so that the inbox fills                                        *)
(***************************************************************************)
NextFull ==
  \/ SendCall(MaxFull)
  \/ \E pkt \in BagToSet(sBlocked) : SendResume(pkt)
  \/ OnOpen
  \/ LoopOpen
  \/ LoopCancelled
  \/ LoopRecv
  \/ LoopSend
  \/ TCancel

SpecFull == Init /\ [][NextFull]_vars

(***************************************************************************)
(* SpecFlood: the host and a test peer that sends one stale DATA packet    *)
(* after another for one SocketID                                          *)
(***************************************************************************)
\* a DATA packet below every expectedSeq: Push drops it
StalePacket == Packet(TypeData, portToID(1), 0, Chunk(9, 9))

NextFlood ==
  \/ Flood("host", StalePacket, MaxDrop)
  \/ \E pkt \in BagToSet(net["host"]) : HostOnPacket(pkt)
  \/ \E c \in BagToSet(cbs) : HostRegisterOrGet(c, MaxSock)
  \/ \E c \in BagToSet(cbs) : HostDeliver(c)
  \/ \E k \in Keys : PushLoopRecv(k)

SpecFlood == Init /\ [][NextFlood]_vars

(***************************************************************************)
(* SpecOrder: the Sender with a few calls made by two Sockets, each packet *)
(* told apart by its SeqNum                                                *)
(***************************************************************************)
NextOrder ==
  \/ \E id \in {7, 8} : SendCallFrom(id, MaxOrder)
  \/ OnOpen
  \/ LoopOpen
  \/ LoopCancelled
  \/ LoopRecv
  \/ LoopSend
  \/ DcTransmit
  \/ DcClose
  \/ TCancel

SpecOrder == Init /\ [][NextOrder]_vars

(***************************************************************************)
(* Claims about the payload streams                                        *)
(***************************************************************************)
IsPrefix(a, b) == Len(a) <= Len(b) /\ \A i \in DOMAIN a : a[i] = b[i]

\* C3: for each SocketID and each direction, at every moment the payloads
\* written to the receiving side's local TCP connections are a prefix of the
\* payloads the sending side's readLoop read: same payloads, same order, none
\* twice, whatever order the transport delivers the packets in.
C3_WrittenIsPrefixOfRead ==
  \A sd \in Side, id \in IDs : IsPrefix(wroteLog[sd][id], readLog[Other(sd)][id])

(***************************************************************************)
(* Claims about teardown, the dial and the dispatch (Spec)                 *)
(***************************************************************************)
\* C5: for every Socket, however many of its loops call cleanup, the body of
\* cleanup runs at most once: the token is cancelled once, the local connection
\* is closed at most once, SendClose is called at most once, and exactly once
\* for a Socket whose cleanup is over.
C5_CleanupOnce ==
  \A k \in Keys :
    LET s == sockets[k]
    IN /\ s.nCancel <= 1 /\ s.nClose <= 1 /\ s.nSendClose <= 1
       /\ s.closeOnce = "done" => (s.nCancel = 1 /\ s.nSendClose = 1)

\* the cleanup of a Socket is over and two of its loops have returned into it
C5_Witness ==
  \E k \in Keys :
    /\ sockets[k].closeOnce = "done"
    /\ sockets[k].drain = "cleanup" /\ sockets[k].read = "cleanup"

\* C6: on the host no DATA payload is written to the target before the CONNECT
\* of its SocketID was processed and the target dialed, whatever the arrival
\* order: a DATA that arrives before the CONNECT waits in the reassembler, and
\* no DATA reaches writeOrConnLoop while the Socket is not connected.
C6_NoDataBeforeDial ==
  \A i \in Slots :
    LET s == sockets[<<"host", i>>]
    IN /\ s.written # <<>> => s.connected
       /\ s.unconnData = 0

\* a host Socket took a DATA from its inbox before the CONNECT and has written
\* the payload after the dial
C6_Witness ==
  \E i \in Slots :
    /\ sockets[<<"host", i>>].early = 1
    /\ sockets[<<"host", i>>].written # <<>>

\* the callback of `side` takes pkt from the transport in this step
Consumes(side, pkt) ==
  /\ BagIn(pkt, net[side])
  /\ net'[side] = net[side] (-) SetToBag({pkt})
  /\ nLost' = nLost

\* C9: a step in which a callback takes a CLOSE whose SocketID has no route
\* entry (host or client), or any packet whose SocketID has no route entry on
\* the client, creates no Socket, leaves the route table and every Socket as
\* they are, starts nothing and sends nothing.
C9_UnknownIsDropped ==
  [][\A sd \in Side : \A pkt \in BagToSet(net[sd]) :
       (/\ Consumes(sd, pkt)
        /\ ~Routed(sd, pkt)
        /\ sd = "client" \/ pkt.Type = TypeClose)
         => /\ sockets' = sockets /\ nSock' = nSock /\ routes' = routes
            /\ cbs' = cbs /\ net'[Other(sd)] = net[Other(sd)]]_vars

\* Nothing was lost or duplicated and nothing is in flight or in a running
\* callback.  The host Socket has sent its CLOSE, which no client Socket ever
\* received, and the client Socket has sent its CLOSE, which no host Socket
\* ever received: both were dropped by the callbacks.
C9_Witness ==
  /\ nLost = 0 /\ nDup = 0
  /\ net = [sd \in Side |-> EmptyBag] /\ cbs = EmptyBag
  /\ nSock = [sd \in Side |-> 1]
  /\ \A sd \in Side :
       LET s == sockets[<<sd, 1>>]
           o == sockets[<<Other(sd), 1>>]
       IN /\ s.nSendClose = 1
          /\ o.inbox = <<>>
          /\ o.reasm.expectedSeq <= s.seq
          /\ \A j \in DOMAIN o.reasm.buffer : o.reasm.buffer[j].SeqNum # s.seq

(***************************************************************************)
(* Claims about the route table (SpecReuse)                                *)
(***************************************************************************)
\* C7: at no time do two Sockets with the same SocketID and unfired tokens
\* exist on one side; host callbacks that run at the same time for one unknown
\* SocketID create, register and start exactly one Socket.
C7_OneLiveSocketPerID ==
  \A sd \in Side : \A i, j \in Slots :
    (/\ i < j
     /\ sockets[<<sd, i>>].used /\ sockets[<<sd, j>>].used
     /\ sockets[<<sd, i>>].id = sockets[<<sd, j>>].id)
      => TokenFired(<<sd, i>>) \/ TokenFired(<<sd, j>>)

\* two host callbacks for one SocketID that both missed in deliver are past
\* registerOrGet: one has created the Socket, the other has found it; on the
\* client the port has been accepted twice
C7_Witness ==
  /\ nSock["client"] = 2
  /\ sockets[<<"client", 1>>].id = sockets[<<"client", 2>>].id
  /\ \E c1, c2 \in BagToSet(cbs) :
       /\ c1.pkt.SocketID = c2.pkt.SocketID
       /\ c1.pc = "deliver" /\ c1.created
       /\ c2.pc = "deliver" /\ ~c2.created

\* C8: the route entry of a Socket S goes away only after the token of S has
\* fired: no step takes the entry of a Socket with an unfired token out of the
\* table or replaces it.
C8_RemovedOnlyAfterFired ==
  [][\A sd \in Side : \A id \in IDs :
       (routes[sd][id] # 0 /\ routes'[sd][id] # routes[sd][id])
         => TokenFired(<<sd, routes[sd][id]>>)]_vars

C10_DoneTearsDown ==
  \A k \in Keys :
    (sockets[k].used /\ exited[k[1]]) => sockets[k].closeOnce = "done"

\* C11: on the client, once the transport's Done has fired no accepted local
\* connection creates a Socket: the number of client Sockets does not grow in
\* a step taken with Done fired.
C11_NoAcceptAfterDone ==
  [][Done("client") => nSock'["client"] = nSock["client"]]_vars

(***************************************************************************)
(* Claims about loss (SpecLoss)                                            *)
(***************************************************************************)
\* C12: after a packet of the connection was lost on its way to the host, the
\* host Socket of that connection terminates also when its target stays open:
\* while it is live, the tunnel still has a step to take towards its end.
C12_LossTerminates ==
  \A i \in Slots :
    LET s == sockets[<<"host", i>>]
    IN (/\ nLost > 0
        /\ s.used /\ ~TokenFired(<<"host", i>>)
        /\ s.tcpConn = "open" /\ ~s.peerClosed)
         => ENABLED ProgramStep

\* C13: when the client's CLOSE of a connection reached the host before the
\* CONNECT, the host still handles the CONNECT and then the CLOSE: once the
\* CLOSE has been sent and every packet of the connection has reached the
\* host, the host Socket has terminated or the tunnel is still working on it.
\* (A CLOSE that arrived after the Socket existed sits in its inbox or its
\* reassembler; a live idle Socket here is one whose CLOSE came first.)
C13_EarlyCloseStillCloses ==
  \A i \in Slots, j \in Slots :
    LET h == sockets[<<"host", i>>]
        c == sockets[<<"client", j>>]
    IN (/\ nLost = 0
        /\ h.used /\ c.used /\ c.id = h.id
        /\ c.nSendClose > 0
        /\ \A pkt \in BagToSet(net["host"]) : pkt.SocketID # h.id
        /\ ~TokenFired(<<"host", i>>))
         => ENABLED ProgramStep

\* writeOrConnLoop of host Socket i has returned without a target connection:
\* the in-order CONNECT comes first and a successful dial sets `connected`
\* for good, so the loop returned from the failed dial
DialFailed(i) ==
  LET s == sockets[<<"host", i>>]
  IN s.used /\ s.drain = "cleanup" /\ ~s.connected

\* C15: a host Socket whose dial failed sends no DATA and at most one CLOSE
\* (its SeqGen is used by the CLOSE only); its cleanup is running or has
\* fired the token and sent one CLOSE; and once the token has fired the route
\* entry is gone or its removal is pending.
C15_DialFailureCleansUp ==
  \A i \in Slots :
    LET k == <<"host", i>>
        s == sockets[k]
    IN DialFailed(i)
         => /\ s.nRead = 0 /\ s.read = "none" /\ readLog["host"][s.id] = <<>>
            /\ s.nSendClose <= 1 /\ s.seq = s.nSendClose
            /\ \/ s.cancelled /\ s.closeOnce = "done" /\ s.nSendClose = 1
               \/ ENABLED (CleanupCancel(k) \/ CleanupClose(k) \/ CleanupSendClose(k))
            /\ s.cancelled
                 => \/ s.waiter = "done" /\ routes["host"][s.id] # i
                    \/ ENABLED WaiterRemove(k)

\* the dial failed, the host Socket is gone from the table and the client's
\* connection was closed by the host's CLOSE, not by its application
C15_Witness ==
  \E i \in Slots, j \in Slots :
    LET s == sockets[<<"host", i>>]
        c == sockets[<<"client", j>>]
    IN /\ DialFailed(i)
       /\ s.cancelled /\ s.closeOnce = "done" /\ s.nSendClose = 1
       /\ s.waiter = "done" /\ routes["host"][s.id] = 0
       /\ c.used /\ c.id = s.id /\ ~c.peerClosed /\ c.tcpConn = "closed"
       /\ nLost = 0

(***************************************************************************)
(* Claims about injected packets (SpecFeed)                                *)
(***************************************************************************)
\* C14: a Socket whose pushLoop met the overflow while the packet with SeqNum 1
\* had not arrived has written nothing to its local connection and has sent
\* at most one CLOSE; it has terminated (token fired, one CLOSE sent) or its
\* cleanup is running.
C14_OverflowTerminates ==
  \A k \in Keys :
    LET s == sockets[k]
    IN (s.used /\ s.push = "cleanup" /\ HoldsNoFirst(s.reasm))
         => /\ s.written = <<>>
            /\ wroteLog[k[1]][s.id] = <<>>
            /\ s.nSendClose <= 1
            /\ \/ s.cancelled /\ s.closeOnce = "done" /\ s.nSendClose = 1
               \/ ENABLED (CleanupCancel(k) \/ CleanupClose(k) \/ CleanupSendClose(k))

\* the overflow came from DATA 2 and DATA 3, and the Socket has terminated
C14_Witness ==
  \E k \in Keys :
    LET s == sockets[k]
    IN /\ s.used /\ s.push = "cleanup" /\ HoldsNoFirst(s.reasm)
       /\ s.reasm.bufferedBytes > maxBufferedBytes
       /\ {s.reasm.buffer[j].SeqNum : j \in DOMAIN s.reasm.buffer} = {2, 3}
       /\ ~s.peerClosed
       /\ s.cancelled /\ s.closeOnce = "done" /\ s.nSendClose = 1
       /\ s.tcpConn = "closed"

\* writeLoop of client Socket i takes an in-order CONNECT from the drained list
TakesConnect(i) ==
  LET s == sockets[<<"client", i>>]
  IN /\ s.drain = "item" /\ Head(s.drained).Type = TypeConnect
     /\ WriteLoopItem(i, "ok")

\* C16: on the client, writeLoop's step on an in-order CONNECT ends the loop,
\* so that the deferred cleanup of the Socket is next.
C16_ConnectTriggersCleanup ==
  [][\A i \in Slots :
       TakesConnect(i) => sockets'[<<"client", i>>].drain = "cleanup"]_vars

\* C16 (amended): on the client, writeLoop's step on an in-order CONNECT only
\* moves on to the next packet: nothing is written or sent, the Socket's token,
\* connection and cleanup state are as before and the loop has not returned.
C16_ConnectIsSkipped ==
  [][\A i \in Slots :
       LET k == <<"client", i>>
       IN TakesConnect(i)
            => /\ sockets'[k] = NextItem(sockets[k])
               /\ sockets'[k].drain \in {"wait", "item"}
               /\ UNCHANGED <<net, wroteLog, routes>>]_vars

\* a live client Socket that has taken SeqNum 1 and 2 and written one payload:
\* SeqNum 1 was the CONNECT, and the loop went on to write the DATA after it
C16_Witness ==
  \E i \in Slots :
    LET s == sockets[<<"client", i>>]
    IN /\ s.used /\ s.reasm.expectedSeq = 3 /\ s.reasm.buffer = <<>>
       /\ Len(s.written) = 1
       /\ s.drain = "wait" /\ s.closeOnce = "new" /\ ~s.cancelled
       /\ s.tcpConn = "open"
       /\ nFed = 2

(***************************************************************************)
(* Claims about the Sender (SpecSend, SpecFull)                            *)
(***************************************************************************)
\* a packet taken from the inbox with the buffered amount over the high-water
\* mark is held, and the wait for it ends only by taking a notification from
\* drainSignal or by the cancellation, which makes the loop give it up
HeldOverHighWater ==
  /\ (LoopRecv /\ BufferedAmount > highWaterMark)
       => sPc' = "waitDrain" /\ dcSent' = dcSent
  /\ (sPc = "waitDrain" /\ sPc' # "waitDrain")
       => \/ drainSignal = 1 /\ drainSignal' = 0 /\ sPc' = "send" /\ dcSent' = dcSent
          \/ sCtx /\ sPc' = "exit" /\ sPkt' = NoPacket /\ dcSent' = dcSent
  /\ dcSent' # dcSent => sPc = "send"

\* C17: a packet dequeued over the high-water mark is not submitted until a
\* low-water notification arrives or the context is cancelled, and when the
\* context was cancelled first (the packet held, no notification there) no
\* packet is submitted afterwards.
C17_HeldUntilLowWater ==
  [][/\ HeldOverHighWater
     /\ sNote'.heldAtCancel => Len(dcSent') = sNote'.sentAtCancel]_vars

\* C17 (amended): a packet dequeued over the high-water mark is not submitted
\* until the loop has taken a notification from drainSignal or its wait has
\* ended with the cancellation; a loop that took the cancellation has exited
\* and submits nothing.
C17_HeldUntilSignalOrExit ==
  [][/\ HeldOverHighWater
     /\ sPc = "exit" => sPc' = "exit" /\ dcSent' = dcSent]_vars

\* the loop took a notification for a packet it held and is about to submit
\* it with the buffered amount still over the mark
C17_Witness ==
  /\ sPc = "send" /\ BufferedAmount > highWaterMark
  /\ drainSignal = 0 /\ ~sCtx /\ ~dcClosed

\* packets the Sender has in hand: queued, with a waiting caller, held by the
\* loop, or submitted
InHand ==
  Len(sInbox) + BagCardinality(sBlocked) + Len(dcSent)
    + (IF sPkt = NoPacket THEN 0 ELSE 1)

\* C18: a Send* call made with the inbox full (64 packets) drops its packet
\* and returns at once: no caller is left waiting and the inbox is as before.
C18_FullInboxDrops ==
  [][(SendCall(MaxFull) /\ Len(sInbox) >= sendBufferSize)
       => sBlocked' = sBlocked /\ sInbox' = sInbox]_vars

\* C18 (amended): a Send* call made with the inbox full and the context live
\* waits with its packet; a waiting call ends by queueing its packet once the
\* inbox has room or by giving it up once the context is cancelled; while the
\* context is live no packet is dropped.
C18_FullInboxBlocks ==
  [][/\ (SendCall(MaxFull) /\ Len(sInbox) >= sendBufferSize /\ ~sCtx)
          => /\ sBlocked' = sBlocked (+) SetToBag({SendPacket})
             /\ sInbox' = sInbox
     /\ \A pkt \in BagToSet(sBlocked) :
          SendResume(pkt)
            => \/ Len(sInbox) < sendBufferSize /\ sInbox' = Append(sInbox, pkt)
               \/ sCtx /\ sInbox' = sInbox
     /\ ~sCtx' => InHand' = nSend']_vars

\* more calls than the inbox holds have all been made with the context live:
\* some waited for room, and every packet is queued, held or submitted
C18_Witness ==
  /\ nSend = sendBufferSize + 2 /\ ~sCtx
  /\ sBlocked = EmptyBag
  /\ Len(sInbox) = sendBufferSize
  /\ InHand = nSend

\* until the open signal has fired nothing is submitted: the loop is at its
\* first select or has returned from it, it holds no packet, and with the
\* context live every packet of a call is in the inbox
ClosedGate ==
  ~openSignal
    => /\ dcSent = <<>> /\ dcBuf = <<>>
       /\ sPc \in {"waitOpen", "exit"} /\ sPkt = NoPacket
       /\ ~sCtx => Len(sInbox) + BagCardinality(sBlocked) = nSend

\* C20: the Sender submits nothing before the open signal has fired and keeps
\* the packets enqueued until then; and when the context was cancelled before
\* the open signal fired, the Sender has sent nothing.
C20_NothingBeforeOpen ==
  /\ ClosedGate
  /\ (sCtx /\ sNote.cancelBeforeOpen) => dcSent = <<>>

\* C20 (amended): the Sender submits nothing before the open signal has fired
\* and keeps the packets enqueued until then; a loop whose first select takes
\* the cancellation has exited without sending and sends nothing later.
C20_NothingBeforeOpenOrAfterExit ==
  [][/\ ClosedGate'
     /\ (sPc = "waitOpen" /\ sPc' = "exit") => sCtx /\ dcSent' = <<>>
     /\ sPc = "exit" => sPc' = "exit" /\ dcSent' = dcSent]_vars

\* the context was cancelled before the DataChannel opened and the loop has
\* exited with packets still queued and nothing sent
C20_Witness ==
  /\ sPc = "exit" /\ sCtx /\ sNote.cancelBeforeOpen
  /\ Len(sInbox) >= 2
  /\ dcSent = <<>>

(***************************************************************************)
(* Claims about a full Socket inbox (SpecFlood)                            *)
(***************************************************************************)
\* the inbox of the Socket that SocketID id is routed to is full
InboxFull(id) ==
  /\ routes["host"][id] # 0
  /\ Len(sockets[<<"host", routes["host"][id]>>].inbox) >= inboxCap

\* the Socket of SocketID id is as before but for one more dropped packet
DroppedAt(id) ==
  LET k == <<"host", routes["host"][id]>>
  IN sockets' = [sockets EXCEPT ![k].nDrop = @ + 1]

\* C19: a callback that routes a packet to a Socket whose inbox is full drops
\* the packet and returns: the Socket's inbox, the route table and the number
\* of Sockets are as before, and no callback goes on to create a Socket.
C19_FullInboxDrops ==
  [][/\ \A pkt \in BagToSet(net["host"]) :
          (HostOnPacket(pkt) /\ InboxFull(pkt.SocketID))
            => /\ DroppedAt(pkt.SocketID) /\ routes' = routes /\ nSock' = nSock
               /\ cbs' = cbs
               /\ net'["host"] = net["host"] (-) SetToBag({pkt})
     /\ \A c \in BagToSet(cbs) :
          (HostDeliver(c) /\ InboxFull(c.pkt.SocketID))
            => /\ DroppedAt(c.pkt.SocketID) /\ routes' = routes /\ nSock' = nSock
               /\ cbs' = cbs (-) SetToBag({c})]_vars

\* two packets were dropped at the full inbox of the one Socket there is, and
\* the callbacks have returned
C19_Witness ==
  \E i \in Slots :
    LET s == sockets[<<"host", i>>]
    IN /\ s.used /\ s.nDrop = 2
       /\ Len(s.inbox) = inboxCap
       /\ net["host"] = EmptyBag /\ cbs = EmptyBag
       /\ nSock["host"] = 1 /\ routes["host"][s.id] = i

(***************************************************************************)
(* Claims about the order of submission (SpecOrder)                        *)
(***************************************************************************)
\* the packets the Sender has accepted, oldest first: submitted, held by the
\* loop, queued
Accepted == dcSent \o (IF sPkt = NoPacket THEN <<>> ELSE <<sPkt>>) \o sInbox

Increasing(q) == \A i, j \in DOMAIN q : i < j => q[i].SeqNum < q[j].SeqNum

\* C21: every submission is made by the loop, one packet a step and only at
\* its dc.Send, and the packets are submitted in the order in which the inbox
\* took them (the order of their calls): submitted, held and queued packets
\* read in that order at all times.
C21_SubmittedInInboxOrder ==
  [][/\ \/ dcSent' = dcSent
        \/ sPc = "send" /\ dcSent' = Append(dcSent, sPkt)
     /\ sInbox' # sInbox =>
          \/ /\ Len(sInbox') = Len(sInbox) + 1
             /\ SubSeq(sInbox', 1, Len(sInbox)) = sInbox
          \/ sInbox' = Tail(sInbox) /\ sPkt' = Head(sInbox) /\ sPkt = NoPacket
     /\ Increasing(Accepted')]_vars

\* packets of both Sockets were submitted, all that were called
C21_Witness ==
  /\ Len(dcSent) = MaxOrder /\ ~sCtx
  /\ {dcSent[i].SocketID : i \in DOMAIN dcSent} = {7, 8}
  /\ \A i \in DOMAIN dcSent : dcSent[i].SeqNum = i

(***************************************************************************)
(* Claims about the frame of a teardown (SpecReuse)                        *)
(***************************************************************************)
\* a step of the teardown of Socket k: the body of its cleanup, or its waiter
\* taking the route entry out
TeardownOf(k) ==
  CleanupCancel(k) \/ CleanupClose(k) \/ CleanupSendClose(k) \/ WaiterRemove(k)

\* C22: a step of the teardown of one Socket leaves every other Socket's
\* token, local connection and reassembler as they are, keeps the route entry
\* of every other Socket, and fires no Done signal.
C22_TeardownTouchesOneSocket ==
  [][\A k \in Keys :
       TeardownOf(k)
         => /\ \A j \in Keys \ {k} :
                 /\ sockets'[j].cancelled = sockets[j].cancelled
                 /\ sockets'[j].tcpConn = sockets[j].tcpConn
                 /\ sockets'[j].reasm = sockets[j].reasm
                 /\ (sockets[j].used /\ routes[j[1]][sockets[j].id] = j[2])
                      => routes'[j[1]][sockets[j].id] = j[2]
            /\ trClosed' = trClosed /\ ctxCancelled' = ctxCancelled]_vars

\* Socket k calls SeqGen.Next: readLoop for a DATA, cleanup for the CLOSE,
\* runAsClient for the CONNECT
CallsNext(k) ==
  \/ ReadLoopSend(k)
  \/ CleanupSendClose(k)
  \/ k[1] = "client" /\ RunAsClientStart(k[2])

\* C23: the counter of a Socket starts at 0; every call of SeqGen.Next by
\* readLoop, cleanup or runAsClient returns the old value plus one and leaves
\* the counter there, the packet it numbers carries that value, and no other
\* step moves the counter: the values are 1, 2, 3, ... with none skipped or
\* reused.
C23_NextCountsUp ==
  [][\A k \in Keys :
       /\ sockets[k].used /\ sockets'[k].used /\ CallsNext(k)
            => /\ sockets'[k].seq = sockets[k].seq + 1
               /\ Done(k[1]) \/ \E p \in BagToSet(net'[Other(k[1])]) :
                                  /\ p.SocketID = sockets[k].id
                                  /\ p.SeqNum = sockets[k].seq + 1
                                  /\ CopiesIn(p, net'[Other(k[1])])
                                       = CopiesIn(p, net[Other(k[1])]) + 1
       /\ sockets[k].used /\ sockets'[k].used /\ ~CallsNext(k)
            => sockets'[k].seq = sockets[k].seq
       /\ ~sockets[k].used /\ sockets'[k].used => sockets'[k].seq = 0]_vars

\* readLoop called Next after cleanup did: a DATA of the Socket carries a
\* higher SeqNum than its CLOSE
C23_Witness ==
  \E k \in Keys :
    /\ sockets[k].used /\ sockets[k].closeOnce = "done"
    /\ \E c, d \in BagToSet(net[Other(k[1])]) :
         /\ c.SocketID = sockets[k].id /\ d.SocketID = sockets[k].id
         /\ c.Type = TypeClose /\ d.Type = TypeData /\ d.SeqNum = c.SeqNum + 1
         /\ sockets[k].seq = d.SeqNum

\* the step hands the client's Sender one more copy of packet p
Emits(p) == CopiesIn(p, net'["host"]) = CopiesIn(p, net["host"]) + 1

RECURSIVE HeldBytes(_)
HeldBytes(buffer) ==
  IF buffer = <<>> THEN 0
  ELSE PayloadLen(Head(buffer).Payload) + HeldBytes(Tail(buffer))

\* C25: a Drain call that returns a non-empty list leaves expectedSeq at the
\* SeqNum of the last packet it returned plus one, and after every Push and
\* every Drain bufferedBytes is the sum of the payload lengths of the packets
\* still in the buffer.
C25_DrainAccounting ==
  [][/\ (rLast' = "drain" /\ Len(rOut') > Len(rOut))
          => rsm'.expectedSeq = rOut'[Len(rOut')].SeqNum + 1
     /\ rsm'.bufferedBytes = HeldBytes(rsm'.buffer)]_vars

\* a Drain has returned packets while a packet with a payload, an old packet
\* pushed after it and nothing drainable stay behind
C25_Witness ==
  /\ rLast = "drain"
  /\ Len(rOut) >= 2
  /\ rsm.buffer # <<>>
  /\ rsm.bufferedBytes > 0
  /\ \E i \in DOMAIN rIn : i > 1 /\ rIn[i] < rsm.expectedSeq /\ rIn[i] > 0
                              /\ \E j \in 1..(i - 1) : rIn[j] > rIn[i]

(***************************************************************************)
(* SpecPort: portToID applied to every 16-bit port                         *)
(***************************************************************************)
InitPort ==
  /\ InitRsm /\ InitT /\ InitS
  /\ fnArg \in 0..MaxUint16
  /\ fnRet = <<>>
  /\ fnPc = "arg"

CallPortToID ==
  /\ fnPc = "arg"
  /\ fnRet' = portToIDWord(fnArg)
  /\ fnPc' = "id"
  /\ UNCHANGED fnArg
  /\ UNCHANGED <<varsR, varsT, varsS>>

NextPort == CallPortToID

SpecPort == InitPort /\ [][NextPort]_vars

\* y with v ^= v << n undone: y ^ y<<n ^ y<<2n ^ ..., the shifts below 32
RECURSIVE UndoShl(_, _, _)
UndoShl(y, n, k) ==
  IF k >= 32 THEN Word(0) ELSE XorW(ShlW(y, k), UndoShl(y, n, k + n))

\* y with v ^= v >> n undone, for n >= 16
UndoShr(y, n) == XorW(y, ShrW(y, n))

\* the value the three steps started from, recovered from their result
UndoMix(id) == UndoShl(UndoShr(UndoShl(id, 5, 0), 17), 13, 0)

\* C26: portToID is a function of the port alone and maps no two 16-bit ports
\* to one SocketID: the port is recovered from the SocketID by undoing the
\* three XOR-shift steps on 32-bit values, so two ports with one SocketID are
\* one port; neighbouring ports differ in their SocketID; and for the ports
\* below 2048 the SocketID is the number the sessions of the model use.
C26_PortToIDInjective ==
  fnPc = "id"
    => /\ fnRet = portToIDWord(fnArg)
       /\ UndoMix(fnRet) = Word(fnArg)
       /\ fnArg < 2048 => fnRet.hi * 65536 + fnRet.lo = portToID(fnArg)
       /\ fnArg > 0 => fnRet # portToIDWord(fnArg - 1)

\* the SocketID of the largest port, whose left shift by 5 loses bits
C26_Witness ==
  /\ fnPc = "id" /\ fnArg = MaxUint16
  /\ fnRet.hi >= 32768
  /\ ShlW(XorW(Word(fnArg), ShlW(Word(fnArg), 13)), 5).hi
       # (XorW(Word(fnArg), ShlW(Word(fnArg), 13)).hi * 32)

(***************************************************************************)
(* The wire format: Encode and Decode on bytes                             *)
(***************************************************************************)
\* a []byte: nil, or a slice with its bytes
NilBytes == [nil |-> TRUE, bytes |-> <<>>]

Bytes(b) == [nil |-> FALSE, bytes |-> b]

\* a Packet with uint32 fields as words and a []byte payload
WirePacket(t, id, seq, payload) ==
  [Type |-> t, SocketID |-> id, SeqNum |-> seq, Payload |-> payload]

\* a PutUint32 that stores the low byte first
PutUint32LowFirst(w) ==
  <<w.lo % 256, w.lo \div 256, w.hi % 256, w.hi \div 256>>

\* binary.BigEndian.PutUint32: the high byte first
PutUint32(w) ==
  <<w.hi \div 256, w.hi % 256, w.lo \div 256, w.lo % 256>>

\* binary.BigEndian.Uint32 of the four bytes of data from index from (1-based)
Uint32(data, from) ==
  [hi |-> data[from] * 256 + data[from + 1],
   lo |-> data[from + 2] * 256 + data[from + 3]]

\* Encode: a buffer of HeaderSize + len(Payload) bytes holding the Type, the
\* SocketID, the SeqNum and a copy of the payload
Encode(pkt) ==
  LET size == HeaderSize + Len(pkt.Payload.bytes)
      head == <<pkt.Type>> \o PutUint32(pkt.SocketID) \o PutUint32(pkt.SeqNum)
  IN [i \in 1..size |->
        IF i <= HeaderSize THEN head[i] ELSE pkt.Payload.bytes[i - HeaderSize]]

\* a Decode that asks for more than the header
DecodeStrict(data) ==
  IF Len(data) <= HeaderSize
    THEN [nilPkt |-> TRUE, err |-> TRUE,
          pkt |-> WirePacket(0, Word(0), Word(0), NilBytes)]
    ELSE [nilPkt |-> FALSE, err |-> FALSE,
          pkt |-> WirePacket(data[1], Uint32(data, 2), Uint32(data, 6),
                             Bytes(SubSeq(data, HeaderSize + 1, Len(data))))]

\* Decode: (nil, error) below HeaderSize bytes; otherwise the packet, whose
\* Payload is allocated only when bytes follow the header
Decode(data) ==
  IF Len(data) < HeaderSize
    THEN [nilPkt |-> TRUE, err |-> TRUE,
          pkt |-> WirePacket(0, Word(0), Word(0), NilBytes)]
    ELSE [nilPkt |-> FALSE, err |-> FALSE,
          pkt |-> WirePacket(data[1], Uint32(data, 2), Uint32(data, 6),
                             IF Len(data) > HeaderSize
                               THEN Bytes(SubSeq(data, HeaderSize + 1, Len(data)))
                               ELSE NilBytes)]

(***************************************************************************)
(* SpecCodec: Encode then Decode of a packet, and Decode of raw bytes      *)
(***************************************************************************)
\* longest payload enumerated byte by byte
MaxPayload == 2

\* longest raw input given to Decode
MaxRaw == 10

ByteValues == {0, 2, 255}

RECURSIVE SeqsUpTo(_, _)
SeqsUpTo(S, n) ==
  IF n = 0 THEN {<<>>}
  ELSE LET shorter == SeqsUpTo(S, n - 1)
       IN shorter \cup {Append(q, x) : q \in {r \in shorter : Len(r) = n - 1}, x \in S}

\* uint32 values: 0, 1, 0x12345678, 0x80000000, 0xFFFFFFFF
WordValues ==
  {Word(0), Word(1), [hi |-> 4660, lo |-> 22136], [hi |-> 32768, lo |-> 0],
   [hi |-> 65535, lo |-> 65535]}

\* one read of maxPayloadSize bytes
FullRead == [i \in 1..maxPayloadSize |-> i % 256]

PayloadValues ==
  {NilBytes} \cup {Bytes(b) : b \in SeqsUpTo(ByteValues, MaxPayload)} \cup {Bytes(FullRead)}

WirePackets ==
  {WirePacket(t, id, seq, pl) :
     t \in {TypeConnect, TypeData, TypeClose}, id \in WordValues, seq \in WordValues,
     pl \in PayloadValues}

InitCodec ==
  /\ InitRsm /\ InitT /\ InitS
  /\ fnRet = <<>>
  /\ \/ fnPc = "arg" /\ fnArg \in WirePackets
     \/ fnPc = "data" /\ fnArg \in SeqsUpTo(ByteValues, MaxRaw)

CallEncode ==
  /\ fnPc = "arg"
  /\ fnRet' = Encode(fnArg)
  /\ fnPc' = "encoded"
  /\ UNCHANGED fnArg
  /\ UNCHANGED <<varsR, varsT, varsS>>

\* Decode of what Encode returned, or of the raw input
CallDecode ==
  /\ fnPc \in {"encoded", "data"}
  /\ fnRet' = Decode(IF fnPc = "encoded" THEN fnRet ELSE fnArg)
  /\ fnPc' = IF fnPc = "encoded" THEN "decoded" ELSE "parsed"
  /\ UNCHANGED fnArg
  /\ UNCHANGED <<varsR, varsT, varsS>>

NextCodec ==
  \/ CallEncode
  \/ CallDecode

SpecCodec == InitCodec /\ [][NextCodec]_vars

\* C27: for a packet of any of the three types, with any 32-bit SocketID and
\* SeqNum and any payload, Encode returns HeaderSize + len(payload) bytes, and
\* Decode of them succeeds with the same Type, SocketID, SeqNum and payload
\* bytes.
C27_RoundTrip ==
  /\ fnPc = "encoded" => Len(fnRet) = 9 + Len(fnArg.Payload.bytes)
  /\ fnPc = "decoded"
       => /\ ~fnRet.err /\ ~fnRet.nilPkt
          /\ fnRet.pkt.Type = fnArg.Type
          /\ fnRet.pkt.SocketID = fnArg.SocketID
          /\ fnRet.pkt.SeqNum = fnArg.SeqNum
          /\ fnRet.pkt.Payload.bytes = fnArg.Payload.bytes

\* a DATA with SocketID 0x12345678, SeqNum 2^32 - 1 and a payload of a full
\* read has been encoded and decoded
C27_Witness ==
  /\ fnPc = "decoded"
  /\ fnArg.Type = TypeData
  /\ fnArg.SocketID = [hi |-> 4660, lo |-> 22136]
  /\ fnArg.SeqNum = [hi |-> 65535, lo |-> 65535]
  /\ Len(fnArg.Payload.bytes) = maxPayloadSize
  /\ fnRet.pkt.Payload.bytes = fnArg.Payload.bytes

\* C28: Decode of fewer than 9 bytes returns an error and no packet; Decode
\* of 9 bytes or more succeeds; Decode of exactly 9 bytes returns a packet
\* with an empty payload.
C28_DecodeLength ==
  fnPc = "parsed"
    => /\ Len(fnArg) < 9 => fnRet.err /\ fnRet.nilPkt
       /\ Len(fnArg) >= 9 => ~fnRet.err /\ ~fnRet.nilPkt
       /\ Len(fnArg) = 9 => Len(fnRet.pkt.Payload.bytes) = 0

\* Decode has refused an input of 8 bytes
C28_Witness ==
  fnPc = "parsed" /\ Len(fnArg) = 8 /\ fnRet.err

(***************************************************************************)
(* SpecDial: the host with a test peer in place of the client, which sends *)
(* a CONNECT and DATA of any size while the host dials its target          *)
(***************************************************************************)
NextDial ==
  \/ \E pkt \in FeedPackets : Feed("host", pkt, MaxFeed)
  \/ \E pkt \in BagToSet(net["host"]) : HostOnPacket(pkt)
  \/ \E c \in BagToSet(cbs) : HostRegisterOrGet(c, MaxConn)
  \/ \E c \in BagToSet(cbs) : HostDeliver(c)
  \/ \E k \in Keys : PushLoopRecv(k)
  \/ \E k \in Keys : DrainReady(k)
  \/ \E k \in Keys : DrainCall(k)
  \/ \E i \in Slots, out \in {"ok", "err"} : WriteOrConnLoopItem(i, out)
  \/ \E i \in Slots, ok \in BOOLEAN : HostDial(i, ok)
  \/ \E k \in Keys : PeerClose(k)
  \/ TeardownStep

SpecDial == Init /\ [][NextDial]_vars

\* C29: the body of a Socket's cleanup fires the token, then closes the local
\* connection if there is one, then submits the CLOSE; and in every state where
\* the CLOSE of a Socket has been submitted, the Socket's token has fired and
\* its local connection is not open.
C29_CancelCloseThenSendClose ==
  [][\A k \in Keys :
       /\ CleanupClose(k) => sockets[k].cancelled
       /\ CleanupSendClose(k) => sockets[k].cancelled /\ sockets[k].tcpConn # "open"
       /\ (sockets'[k].used /\ sockets'[k].nSendClose >= 1)
            => sockets'[k].cancelled /\ sockets'[k].tcpConn # "open"]_vars

\* the buffer of the Reassembler holds the packet Drain would return next
HoldsExpected(r) ==
  \E j \in DOMAIN r.buffer : r.buffer[j].SeqNum = r.expectedSeq

\* C30: the Ready channel holds at most one signal, and whenever the buffer
\* of a Socket's Reassembler holds the packet with SeqNum equal to expectedSeq,
\* a signal is pending on Ready or the drain loop has received one and has yet
\* to call Drain: no further Push is needed for that packet to be returned.
C30_NoLostWakeup ==
  \A k \in Keys :
    sockets[k].used
      => /\ sockets[k].reasm.notify \in {0, 1}
         /\ HoldsExpected(sockets[k].reasm)
              => sockets[k].reasm.notify = 1 \/ sockets[k].drain = "drain"

(***************************************************************************)
(* SpecConnect: the host with a test peer that sends CONNECT and DATA with *)
(* any of the first SeqNums, so that a CONNECT may follow a CONNECT and a  *)
(* DATA may come first                                                     *)
(***************************************************************************)
ConnectPackets ==
  { Packet(t, id, n, IF t = TypeData THEN Chunk(9, n) ELSE NoPayload) :
      t \in {TypeConnect, TypeData}, id \in IDs, n \in 1..MaxFeed }

NextConnect ==
  \/ \E pkt \in ConnectPackets : Feed("host", pkt, MaxFeed)
  \/ \E pkt \in BagToSet(net["host"]) : HostOnPacket(pkt)
  \/ \E c \in BagToSet(cbs) : HostRegisterOrGet(c, MaxConn)
  \/ \E c \in BagToSet(cbs) : HostDeliver(c)
  \/ \E k \in Keys : PushLoopRecv(k)
  \/ \E k \in Keys : DrainReady(k)
  \/ \E k \in Keys : DrainCall(k)
  \/ \E i \in Slots, out \in {"ok", "err"} : WriteOrConnLoopItem(i, out)
  \/ \E i \in Slots, ok \in BOOLEAN : HostDial(i, ok)
  \/ \E k \in Keys : PeerClose(k)
  \/ TeardownStep

SpecConnect == Init /\ [][NextConnect]_vars

\* C31: a host Socket starts a dial only while it is not connected and has no
\* connection, and a failed dial ends its loop, so it dials at most once; once
\* connected it stays connected, a further CONNECT starts no dial and leaves
\* the connection as it is; a DATA taken while the Socket is not connected is
\* passed over without a write; nothing is written before the dial.
C31_DialsOnce ==
  [][\A i \in Slots :
       LET k == <<"host", i>>
           s == sockets[k]
           t == sockets'[k]
       IN s.used =>
            /\ (t.drain = "dial" /\ s.drain # "dial")
                 => ~s.connected /\ s.tcpConn = "nil"
            /\ (s.drain = "dial" /\ t.drain # "dial" /\ ~t.connected) => t.drain = "cleanup"
            /\ s.drain = "cleanup" => t.drain # "dial"
            /\ s.connected => t.connected /\ t.tcpConn \in {s.tcpConn, "closed"}
            /\ (s.drain = "item" /\ s.connected /\ Head(s.drained).Type = TypeConnect
                  /\ t.drained # s.drained)
                 => /\ t.drained = Tail(s.drained)
                    /\ wroteLog' = wroteLog /\ t.written = s.written
            /\ (s.drain = "item" /\ ~s.connected /\ Head(s.drained).Type = TypeData
                  /\ t.drained # s.drained)
                 => /\ t.drained = Tail(s.drained) /\ t.drain # "cleanup"
                    /\ wroteLog' = wroteLog /\ t.written = s.written
            /\ t.written # <<>> => t.connected]_vars

\* a connected host Socket has taken the packets with SeqNum 1 and 2 and its
\* loop is waiting again, with nothing written and no DATA passed over: the
\* second packet was a CONNECT and it was ignored
C31_Witness ==
  \E i \in Slots :
    LET s == sockets[<<"host", i>>]
    IN /\ s.used /\ s.connected /\ s.tcpConn = "open" /\ ~s.peerClosed
       /\ s.reasm.expectedSeq >= 3 /\ s.drained = <<>> /\ s.drain = "wait"
       /\ s.written = <<>> /\ s.unconnData = 0

C33_NoConnectionAfterCleanup ==
  \A i \in Slots :
    LET s == sockets[<<"host", i>>]
    IN (s.used /\ s.closeOnce = "done") => s.tcpConn # "open"

\* C34: the CLOSE of a Socket carries the highest SeqNum the Socket emits:
\* once cleanup has taken the sequence number of the CLOSE, the Socket takes
\* no further sequence number and emits no DATA.
C34_CloseIsLast ==
  [][\A k \in Keys :
       (sockets[k].used /\ sockets[k].nSendClose >= 1)
         => /\ sockets'[k].seq = sockets[k].seq
            /\ ~ReadLoopSend(k)]_vars

\* C35: the waiter of a Socket takes only its own Socket's entry out of the
\* route table, so a client Socket whose token has not fired is the one its
\* SocketID is routed to, also when it was registered under the SocketID of
\* an earlier Socket whose waiter had not run yet.
C35_WaiterRemovesOwnEntry ==
  \A i \in Slots :
    LET k == <<"client", i>>
    IN (sockets[k].used /\ ~TokenFired(k)) => routes["client"][sockets[k].id] = i

\* C36: with no packet lost, when a host Socket of a SocketID has terminated
\* and its entry is gone, and packets of the same connection that arrived
\* later have put a new Socket for the SocketID into the table, that Socket
\* does not stay for ever: once the client has sent its CLOSE and every packet
\* has reached the host, the new Socket has terminated or the tunnel still
\* has a step to take.
C36_LatePacketsLeaveNoSocket ==
  \A i \in Slots, j \in Slots :
    LET old == sockets[<<"host", i>>]
        new == sockets[<<"host", j>>]
    IN (/\ nLost = 0
        /\ i # j /\ old.used /\ new.used /\ old.id = new.id
        /\ old.waiter = "done"
        /\ routes["host"][new.id] = j
        /\ ~TokenFired(<<"host", j>>)
        /\ \A c \in Slots :
             sockets[<<"client", c>>].used => sockets[<<"client", c>>].nSendClose > 0
        /\ \A pkt \in BagToSet(net["host"]) : pkt.SocketID # new.id
        /\ cbs = EmptyBag)
         => ENABLED ProgramStep

(***************************************************************************)
(* SpecSendErr: the Sender with a DataChannel that transmits nothing and   *)
(* may close, so that dc.Send fails while calls keep coming                *)
(***************************************************************************)
NextSendErr ==
  \/ SendCall(MaxFull)
  \/ \E pkt \in BagToSet(sBlocked) : SendResume(pkt)
  \/ OnOpen
  \/ LoopOpen
  \/ LoopCancelled
  \/ LoopRecv
  \/ LoopSend
  \/ DcClose
  \/ TCancel

SpecSendErr == Init /\ [][NextSendErr]_vars

C38_NoStaleRelease ==
  [][(sPc = "waitDrain" /\ sPc' = "send") => BufferedAmount <= highWaterMark]_vars

(***************************************************************************)
(* SpecStream: the client with one local connection and a test peer in     *)
(* place of the host, which sends the DATA packets of the stream one by    *)
(* one in SeqNum order, each once, to a SocketID that is routed            *)
(***************************************************************************)
\* a test peer hands the next DATA packet of its stream to the transport
\* once the last one was taken
FeedInOrder(side, id, pl, maxFeed) ==
  /\ nFed < maxFeed
  /\ net[side] = EmptyBag
  /\ routes[side][id] # 0
  /\ net' = [net EXCEPT ![side] = @ (+) SetToBag({Packet(TypeData, id, nFed + 1, pl)})]
  /\ nFed' = nFed + 1
  /\ UNCHANGED <<sockets, nSock, routes, cbs, ctxCancelled, trClosed, exited, nDup, nLost, wroteLog, readLog>>
  /\ UNCHANGED <<varsR, varsS, varsF>>

NextStream ==
  \/ \E port \in Ports : Accept(port, MaxConn, FALSE)
  \/ LoopStep
  \/ TeardownStep
  \/ \E pkt \in BagToSet(net["client"]) : ClientOnPacket(pkt)
  \/ \E i \in Slots, out \in {"ok", "err"} : WriteLoopItem(i, out)
  \/ \E k \in Keys : PeerClose(k)
  \/ \E id \in IDs, pl \in {Chunk(9, 9), BigChunk(9)} : FeedInOrder("client", id, pl, MaxFeed)

SpecStream == Init /\ [][NextStream]_vars

\* C39: a Socket whose packets all arrive in SeqNum order with no gap is never
\* torn down for an overflow of its Reassembler: payloads that can be
\* delivered and only wait for the drain loop do not count toward the cap.
C39_InOrderNeverOverflows ==
  \A k \in Keys : sockets[k].used => sockets[k].push # "cleanup"

(***************************************************************************)
(* SpecReply: SpecReuse with an echo service behind the host, so that the  *)
(* host answers the DATA of a client Socket with DATA of the same payload; *)
(* the first application closes without having sent anything               *)
(***************************************************************************)
NextReply ==
  \/ \E port \in Ports : Accept(port, ReuseConns, TRUE)
  \/ LoopStep
  \/ TeardownStep
  \/ DispatchStep
  \/ \E i \in Slots : WriteLoopItem(i, "ok")
  \/ \E i \in Slots : WriteOrConnLoopItem(i, "ok")
  \/ \E i \in Slots : HostDial(i, TRUE)
  \/ \E k \in {<<"client", ReuseConns>>} \cup ({"host"} \X Slots) : ReadLoopRead(k, MaxData, TRUE)
  \/ \E k \in Keys : ReadLoopSend(k)
  \/ PeerClose(<<"client", 1>>)

SpecReply == Init /\ [][NextReply]_vars

\* the packet is DATA that echoes a chunk read by the client Socket i: the
\* host sent it for the connection that Socket i opened with its CONNECT
RepliesTo(pkt, i) == pkt.Type = TypeData /\ pkt.Payload.tag \div 10 = i

\* C40: the client puts a Socket into the route table before the Socket's
\* CONNECT is submitted, so as long as the Socket is live (its token has not
\* fired) the dispatch drops no packet that the host sent in reply to it as
\* one of an unknown SocketID.
C40_RepliesReachLiveSocket ==
  [][\A i \in Slots : \A pkt \in BagToSet(net["client"]) :
       ( /\ ClientOnPacket(pkt)
         /\ RepliesTo(pkt, i)
         /\ sockets[<<"client", i>>].used
         /\ ~TokenFired(<<"client", i>>) )
         => Routed("client", pkt)]_vars

====
